---- MODULE Spec2Model ----
(***************************************************************************)
(* Model of the query-understanding core of agentic_RAG_medical_VR:        *)
(* DecisionRouter.route (app/scene/router.py) with its leaves              *)
(* (ZeroShotClassifier.classify, SemanticEntityResolver, NumericParser)    *)
(* and the ToolValidator (app/tools/control.py).                           *)
(*                                                                         *)
(* Conventions.  Confidences are integers in hundredths (0.9 is 90).       *)
(* Numbers of an utterance are integers in tenths (11.5 is 115).  An       *)
(* utterance is the sequence of its tokens: a word or fixed phrase, a bare *)
(* number, a number with a percent sign, or a dimension pair "a x b".      *)
(* Python's substring test `p in text.lower()` is Has(text, p).            *)
(***************************************************************************)
EXTENDS Integers, Sequences, FiniteSets, TLC

VARIABLES
    pc,          \* "idle" | "proposed" | "done" | "validated" | "repeated"
    cfg,         \* which optional parts this deployment has enabled or installed
    text,        \* the utterance of the current call
    signals,     \* route's local variables when it returned
    decision,    \* what route returned (or the exception it raised)
    args,        \* the argument mapping handed to the ToolValidator
    verdict,     \* what control_handler returned (or the exception it raised)
    again        \* what a second call route(text) returned

\* the retriever and what surrounds one call of it
VARIABLES
    rag_pc,        \* "unused" | "idle" | "retrieved" | "built"
    weights,       \* hybrid_weights of the retrieval configuration
    store_hits,    \* what the vector index returns for the query
    term_hits,     \* the query's tokens and how many of them each chunk text holds
    retrieved,     \* what retrieve returned
    chunk_lookup,  \* the chunk texts handed to build_context, by their length
    max_chars,     \* the character budget handed to build_context
    context        \* what build_context returned

\* the numeric parser called on its own
VARIABLES
    parse_pc,        \* "unused" | "idle" | "parsed"
    parse_text,      \* the text handed to parse_value
    implant_ranges,  \* the implant ranges of the configuration
    parsed           \* what parse_value returned

\* the shared FAISSVectorStore, one thread that mutates it and one that queries
VARIABLES
    index,       \* the entries held by the FAISS index, by position
    ids,         \* FAISSVectorStore.ids
    metadatas,   \* FAISSVectorStore.metadatas
    upserted,    \* how many entries have been handed to upsert so far
    writer_pc,   \* "unused" | "idle" | "upsert_ids" | "upsert_metadatas" | "delete_ids" | "delete_metadatas"
    batch,       \* the entries of the upsert in progress
    reader_pc,   \* "unused" | "idle" | "search" | "read_metadata" | "read_id" | "done"
    hit,         \* the position the search gave back and the entry found there
    result       \* what query returned, or the exception it raised

\* the notes service and its two tables
VARIABLES
    sessions,    \* the ids in table sessions
    notes,       \* table notes, in insertion order: id, session_id, text, finalized
    notes_op,    \* the last operation of the service and its session
    returned,    \* the notes the last end() returned
    added        \* per session, the ids of the notes add() made since its last end()

\* the chunker called on one text
VARIABLES
    split_pc,    \* "unused" | "idle" | "loop" | "split"
    split_args,  \* the text, max_chars and overlap handed to split_text
    split_start, \* the local start of the loop of split_text
    chunks       \* what split_text returned, or has collected so far

\* the lazily built singletons of app/routes.py and the requests that use them
VARIABLES
    _tools,          \* the global _tools: "" for None, else the request that built it
    _vector_store,   \* the global _vector_store: 0 for None, else the store object
    _retriever,      \* the global _retriever: the store object it holds, 0 for None
    _agent,          \* the global _agent: "" for None, else the request that built it
    info_retriever,  \* the retriever injected into info_agent
    svc_pc,          \* where each request stands: in _ensure_services, or "ready"
    svc_made,        \* per request, the Retriever it has built and not yet assigned
    contents,        \* per store object, the chunks upserted into it
    ingested,        \* how many chunks ingest has upserted in all
    chat_seen        \* the last chat: the chunks its retriever's store held, and
                     \* how many had been ingested by then

\* the scene log buffer, one request that posts to it and one open stream
VARIABLES
    _log_messages,  \* the buffer: the messages it holds, by their posting number
    posted,         \* how many messages POST /v1/scene/log has accepted
    log_pc,         \* the posting request: "unused" | "idle" | "truncate"
    log_reply,      \* the status of the last POST
    idx,            \* the position of the stream's generator in the buffer
    delivered       \* the messages the stream has yielded, in order

routerVars == <<pc, cfg, text, signals, decision, args, verdict, again>>
ragVars ==
    <<rag_pc, weights, store_hits, term_hits, retrieved, chunk_lookup, max_chars, context>>

parserVars == <<parse_pc, parse_text, implant_ranges, parsed>>

storeVars == <<index, ids, metadatas, upserted, writer_pc, batch, reader_pc, hit, result>>

notesVars == <<sessions, notes, notes_op, returned, added>>

chunkerVars == <<split_pc, split_args, split_start, chunks>>

logVars == <<_log_messages, posted, log_pc, log_reply, idx, delivered>>

svcVars ==
    <<_tools, _vector_store, _retriever, _agent, info_retriever, svc_pc, svc_made,
      contents, ingested, chat_seen>>

vars == <<routerVars, ragVars, parserVars, storeVars, notesVars, chunkerVars, svcVars, logVars>>

(***************************************************************************)
(* Bounds of the model                                                     *)
(***************************************************************************)
MaxLen == 3

\* the longest result list of the vector index
MaxHits == 2

\* how many entries are upserted into the vector store in all
MaxEntries == 3

\* how many notes are added in all
MaxNotes == 3

\* the longest text handed to the chunker, and the largest max_chars
MaxText == 6
MaxChunkChars == 3

\* how many chunks are ingested in all
MaxIngested == 2

\* the largest overlap handed to split_text, and how many chunks of a call
\* are followed
MaxOverlap == 4
MaxChunks == 8

\* how many messages are posted to the scene log in all
MaxPosted == 201

(***************************************************************************)
(* Tokens                                                                  *)
(***************************************************************************)
W(s) == [k |-> "word", w |-> s, a |-> 0, b |-> 0]
N(v) == [k |-> "num", w |-> "", a |-> v, b |-> 0]
P(v) == [k |-> "pct", w |-> "", a |-> v, b |-> 0]
D(x, y) == [k |-> "dim", w |-> "", a |-> x, b |-> y]

Words == {"turn on", "turn off", "set", "give me", "show me", "what is",
          "handles", "brightness", "contrast", "implants", "skull", "asdkjh"}

\* "11.5", "50" and "150"; "50%" and "150%"; "4 x 11.5" and "9 x 9"
BareNumbers == {115, 500, 1500}
PctNumbers == {500, 1500}
DimPairs == {<<40, 115>>, <<90, 90>>}

Vocabulary ==
    {W(s) : s \in Words} \cup {N(v) : v \in BareNumbers}
        \cup {P(v) : v \in PctNumbers} \cup {D(d[1], d[2]) : d \in DimPairs}

\* the utterances of the model: up to MaxLen tokens, none of them repeated
Utterances ==
    UNION {{u \in [1..n -> Vocabulary] : \A i, j \in 1..n : i # j => u[i] # u[j]} :
              n \in 1..MaxLen}

\* the proper substrings among the words, names and synonyms in play
ProperSubstr ==
    {<<"show me", "show">>, <<"implants", "implant">>, <<"handles", "handle">>,
     <<"skull_model", "skull">>, <<"dental implants", "implants">>,
     <<"dental implants", "implant">>}

Contains(big, small) == big = small \/ <<big, small>> \in ProperSubstr

\* `p in text_lower`
Has(t, p) == \E i \in 1..Len(t) : t[i].k = "word" /\ Contains(t[i].w, p)

HasAny(t, ps) == \E p \in ps : Has(t, p)

\* any(char.isdigit() for char in text)
HasDigit(t) == \E i \in 1..Len(t) : t[i].k # "word"

\* text_lower.startswith(p), after strip()
StartsWith(t, p) == Len(t) >= 1 /\ t[1].k = "word" /\ Contains(t[1].w, p)

(***************************************************************************)
(* Configuration: config/entities.json and config/ranges.json as the code  *)
(* reads them.  The entity types are the ones router.py and control.py     *)
(* test for; the ranges are the defaults the code falls back to.           *)
(***************************************************************************)
Entities ==
    {[name |-> "handles", type |-> "switch", synonyms |-> {"handle"}],
     [name |-> "brightness", type |-> "value", synonyms |-> {}],
     [name |-> "contrast", type |-> "value", synonyms |-> {}],
     [name |-> "implants", type |-> "implant",
      synonyms |-> {"implant", "dental implants"}],
     [name |-> "skull_model", type |-> "skull_model", synonyms |-> {"skull"}],
     [name |-> "control_panel", type |-> "control", synonyms |-> {}]}

EntityNames == {e.name : e \in Entities}

EntityOf(n) == CHOOSE e \in Entities : e.name = n

\* the order of the "entities" list of entities.json
EntityOrder ==
    <<"handles", "brightness", "contrast", "implants", "skull_model", "control_panel">>

\* len(name)
NameLen(n) ==
    CASE n = "handles" -> 7
      [] n = "handle" -> 6
      [] n = "brightness" -> 10
      [] n = "contrast" -> 8
      [] n = "implants" -> 8
      [] n = "implant" -> 7
      [] n = "dental implants" -> 15
      [] n = "skull_model" -> 11
      [] n = "skull" -> 5
      [] n = "control_panel" -> 13
      [] OTHER -> 0

ValueMin == 0
ValueMax == 1000
HeightMin == 30
HeightMax == 48
LengthMin == 60
LengthMax == 170

\* ranges.get(name, {'min': 0, 'max': 100})
RangeOf(n) == [min |-> ValueMin, max |-> ValueMax]

InRange(v, lo, hi) == lo <= v /\ v <= hi

(***************************************************************************)
(* Values and parse results                                                *)
(***************************************************************************)
Absent == -1

VNone == [k |-> "none", s |-> "", n |-> 0, h |-> Absent, l |-> Absent]
VStr(x) == [k |-> "str", s |-> x, n |-> 0, h |-> Absent, l |-> Absent]
VNum(x) == [k |-> "num", s |-> "", n |-> x, h |-> Absent, l |-> Absent]
VMap(x, y) == [k |-> "map", s |-> "", n |-> 0, h |-> x, l |-> y]

NoParse == [found |-> FALSE, val |-> VNone, conf |-> 0]
Parsed(v, c) == [found |-> TRUE, val |-> v, conf |-> c]

\* positions of the tokens of kind k in ks, in text order
Positions(t, ks) == {i \in 1..Len(t) : t[i].k \in ks}

First(S) == CHOOSE i \in S : \A j \in S : i <= j

\* re.search(r'height[:\s]*(\d+(?:\.\d+)?)'): the label directly before a number
LabelPositions(t, label) ==
    {i \in 1..(Len(t) - 1) :
        /\ t[i].k = "word" /\ Contains(t[i].w, label)
        /\ t[i + 1].k \in {"num", "pct"}}

\* the implant ranges of ranges.json, and their defaults
Range(lo, hi) == [min |-> lo, max |-> hi]
DefaultHeightRange == Range(HeightMin, HeightMax)
DefaultLengthRange == Range(LengthMin, LengthMax)
Within(v, r) == InRange(v, r.min, r.max)

\* a slip in the dimension branch: the swapped assignment is never tried
dimension_match_as_written(val1, val2, height_range, length_range) ==
    IF Within(val1, height_range) /\ Within(val2, length_range)
    THEN Parsed(VMap(val1, val2), 90)
    ELSE Parsed(VMap(val1, val2), 60)

\* parse_implant_size on a match of the "4 x 11.5" pattern: which of the two
\* numbers is the height and which the length
dimension_match(val1, val2, height_range, length_range) ==
    IF Within(val1, height_range) /\ Within(val2, length_range)
    THEN Parsed(VMap(val1, val2), 90)
    ELSE IF Within(val2, height_range) /\ Within(val1, length_range)
    THEN Parsed(VMap(val2, val1), 90)
    ELSE Parsed(VMap(val1, val2), 60)

\* NumericParser.parse_implant_size under given implant ranges
parse_implant_size_in(t, height_range, length_range) ==
    LET dims == Positions(t, {"dim"})
        hs == LabelPositions(t, "height")
        ls == LabelPositions(t, "length")
        nums == Positions(t, {"num", "pct"})
    IN  IF dims # {}
        THEN dimension_match(t[First(dims)].a, t[First(dims)].b, height_range, length_range)
        ELSE IF hs # {} /\ ls # {}
        THEN LET height == t[First(hs) + 1].a
                 length == t[First(ls) + 1].a
             IN  IF Within(height, height_range) /\ Within(length, length_range)
                 THEN Parsed(VMap(height, length), 90)
                 ELSE Parsed(VMap(height, length), 60)
        ELSE IF nums # {}
        THEN LET value == t[First(nums)].a
             IN  IF Within(value, height_range)
                 THEN Parsed(VMap(value, Absent), 50)
                 ELSE IF Within(value, length_range)
                 THEN Parsed(VMap(Absent, value), 50)
                 ELSE NoParse
        ELSE NoParse

\* NumericParser.parse_implant_size with the default ranges
parse_implant_size(t) == parse_implant_size_in(t, DefaultHeightRange, DefaultLengthRange)

\* the range parse_brightness_contrast checks against
TargetRange(t) ==
    IF Has(t, "brightness") THEN RangeOf("brightness")
    ELSE IF Has(t, "contrast") THEN RangeOf("contrast")
    ELSE [min |-> ValueMin, max |-> ValueMax]

\* NumericParser.parse_brightness_contrast
parse_brightness_contrast(t) ==
    LET pcts == Positions(t, {"pct"})
        nums == Positions(t, {"num", "pct"})
        r == TargetRange(t)
    IN  IF pcts # {}
        THEN LET value == t[First(pcts)].a
             IN  IF InRange(value, r.min, r.max)
                 THEN Parsed(VNum(value), 90)
                 ELSE Parsed(VNum(value), 50)
        ELSE IF nums # {} /\ InRange(t[First(nums)].a, r.min, r.max)
        THEN Parsed(VNum(t[First(nums)].a), 70)
        ELSE NoParse

\* NumericParser.parse_value(text), target_type "auto", under given implant ranges
parse_value_in(t, height_range, length_range) ==
    LET implant_result == parse_implant_size_in(t, height_range, length_range)
    IN  IF implant_result.found THEN implant_result
        ELSE parse_brightness_contrast(t)

\* NumericParser.parse_value(text), target_type "auto", with the default ranges
parse_value(t) == parse_value_in(t, DefaultHeightRange, DefaultLengthRange)

\* the texts handed to the parser on its own: "a x b", alone or after a phrase
DimValues == {20, 40, 45, 70, 115, 200}
\* "n%", alone or after a word
PercentTexts ==
    {<<P(v)>> : v \in PctNumbers}
        \cup {<<W(w), P(v)>> : w \in {"set", "brightness"}, v \in PctNumbers}

ParserTexts ==
    {<<D(a, b)>> : a \in DimValues, b \in DimValues}
        \cup {<<W(w), D(a, b)>> : w \in {"give me", "implants"},
                                   a \in DimValues, b \in DimValues}
        \cup PercentTexts

\* implant ranges a deployment can configure: the defaults, and a pair of
\* ranges that overlap
ImplantRanges ==
    {[height |-> DefaultHeightRange, length |-> DefaultLengthRange],
     [height |-> Range(30, 80), length |-> Range(60, 170)]}

(***************************************************************************)
(* Intent classification                                                   *)
(***************************************************************************)
Labels == {"control_on", "control_off", "control_value", "info_definition",
           "info_location", "size_request", "none"}

Intent(l, c) == [label |-> l, conf |-> c]

\* the scene words the rule classifier looks for
SceneWords == {"handles", "nerve", "sinus", "xray", "implants"}

\* ZeroShotClassifier.classify
classify(t, enabled) ==
    IF ~enabled THEN Intent("none", 0)
    ELSE IF /\ HasAny(t, {"turn off", "disable", "switch off", "stop", "hide", "deactivate"})
            /\ HasAny(t, SceneWords)
    THEN Intent("control_off", 90)
    ELSE IF /\ HasAny(t, {"turn on", "enable", "switch on", "start", "show", "give me",
                          "provide me with", "activate"})
            /\ HasAny(t, SceneWords)
    THEN IF Has(t, "implant") /\ HasDigit(t)
         THEN Intent("control_value", 90)
         ELSE Intent("control_on", 90)
    ELSE IF HasAny(t, {"set", "increase", "decrease"}) /\ HasAny(t, {"brightness", "contrast"})
    THEN Intent("control_value", 80)
    ELSE IF StartsWith(t, "what are") \/ StartsWith(t, "what is")
    THEN Intent("info_definition", 90)
    ELSE IF StartsWith(t, "where is") \/ StartsWith(t, "where are")
    THEN Intent("info_location", 90)
    ELSE IF Has(t, "implant") /\ HasAny(t, {"give me", "provide me"}) /\ ~HasDigit(t)
    THEN Intent("size_request", 80)
    ELSE Intent("none", 0)

\* rapidfuzz.fuzz.partial_ratio(pattern, text) for a pattern the text contains
ContainedRatio == 100

Min(x, y) == IF x <= y THEN x ELSE y

\* the pattern table of _fuzzy_intent_match, in dictionary order
FuzzyOrder == <<"info_definition", "info_location", "control_on", "control_off">>

FuzzyPatterns(intent) ==
    CASE intent = "info_definition" ->
            {"what is", "what are", "definition", "tell me about", "information",
             "wat is", "wat are", "definiton", "infomation"}
      [] intent = "info_location" ->
            {"where is", "where are", "which side", "what side",
             "were is", "were are", "wich side", "wat side"}
      [] intent = "control_on" ->
            {"turn on", "activate", "enable", "switch on", "start", "show",
             "give me", "provide me", "bring up", "turnn on", "tirn on",
             "turnn", "tirn", "activat", "enabl", "swich on"}
      [] intent = "control_off" ->
            {"turn off", "deactivate", "disable", "switch off", "stop", "hide",
             "turnn off", "tirn off", "deactivat", "disabl", "swich off"}

\* the score one intent of the table reaches: 0 when no pattern is contained
FuzzyScore(t, intent) ==
    IF ~HasAny(t, FuzzyPatterns(intent)) THEN 0
    ELSE IF intent \in {"info_definition", "info_location"}
    THEN Min(ContainedRatio + 30, 100)
    ELSE ContainedRatio

\* the loop `if score > best_score`: the first intent of the table with the top score
RECURSIVE FuzzyBest(_, _, _)
FuzzyBest(t, i, best) ==
    IF i > Len(FuzzyOrder) THEN best
    ELSE LET score == FuzzyScore(t, FuzzyOrder[i])
         IN  FuzzyBest(t, i + 1,
                       IF score > best.conf THEN Intent(FuzzyOrder[i], score) ELSE best)

\* DecisionRouter._fuzzy_intent_match
_fuzzy_intent_match(t, rapidfuzz) ==
    IF rapidfuzz
    THEN LET best == FuzzyBest(t, 1, Intent("none", 0))
         IN  IF best.conf > 80 THEN Intent(best.label, Min(best.conf + 20, 100)) ELSE best
    ELSE IF HasAny(t, {"turn on", "activate", "enable", "show", "start"})
    THEN Intent("control_on", 60)
    ELSE IF HasAny(t, {"turn off", "deactivate", "disable", "hide", "stop"})
    THEN Intent("control_off", 60)
    ELSE IF HasAny(t, {"what is", "what are", "definition"})
    THEN Intent("info_definition", 60)
    ELSE IF HasAny(t, {"where is", "where are", "which side"})
    THEN Intent("info_location", 60)
    ELSE Intent("none", 0)

\* what the completion oracle can do: raise, answer off the label set, or name a
\* label, as it is declared or padded and capitalised
LLMReplies == {"<exception>", "<other text>", " Control_On "} \cup Labels

\* response.strip().lower()
StripLower(reply) == IF reply = " Control_On " THEN "control_on" ELSE reply

\* a slip in the membership test: whatever the oracle replied is taken as a label
_llm_classify_any_reply(reply) == Intent(StripLower(reply), 70)

\* DecisionRouter._llm_classify
_llm_classify(reply) ==
    IF StripLower(reply) \in Labels THEN Intent(StripLower(reply), 70) ELSE Intent("none", 0)

IntentThreshold == 60
EntityThreshold == 50
ValueThreshold == 40
RouterCutoff == 30

\* route, step 1 up to the fuzzy fallback
IntentAfterFuzzy(t, c) ==
    LET first == classify(t, c.classifier)
        fuzzy == _fuzzy_intent_match(t, c.rapidfuzz)
    IN  IF first.conf < IntentThreshold /\ fuzzy.conf > first.conf THEN fuzzy ELSE first

\* the tie-break of route: the oracle's label replaces a weaker one
TieBreak(a, reply) ==
    LET llm == _llm_classify(reply)
    IN  IF a.conf < IntentThreshold /\ llm.conf > a.conf THEN llm ELSE a

\* a slip in the implant override: the branch without a digit is missing
ImplantOverrideDigitOnly(b, implant_request, digit) ==
    IF implant_request /\ digit THEN Intent("control_value", 90) ELSE b

\* the implant override of route
ImplantOverride(b, implant_request, digit) ==
    IF implant_request
    THEN IF digit THEN Intent("control_value", 90) ELSE Intent("size_request", 80)
    ELSE b

(***************************************************************************)
(* Entity resolution                                                       *)
(***************************************************************************)
\* a candidate tuple (name, confidence, entity_data); ent is entity_data["name"]
Cand(n, c, e) == [name |-> n, conf |-> c, ent |-> e]

\* names and synonyms the embedding index holds, each with its entity
\* results of SemanticEntityResolver.resolve: nothing (backend missing, or all
\* similarities at or below the floor of 0.3), or the candidates above the floor:
\* a name at 0.35 or at 0.9, or a synonym, which resolve reports as it is indexed
SemResults ==
    {<< >>, <<Cand("handles", 35, "handles")>>, <<Cand("handles", 90, "handles")>>,
     <<Cand("skull", 90, "skull_model")>>}

\* rapidfuzz.fuzz.partial_ratio(text_lower, candidate): 100 when the shorter string
\* occurs in the longer one, below the threshold of 70 otherwise
partial_ratio(t, cand) ==
    IF \/ Has(t, cand)
       \/ Len(t) = 1 /\ t[1].k = "word" /\ Contains(cand, t[1].w)
    THEN 100 ELSE 0

Max(x, y) == IF x >= y THEN x ELSE y

SetMax(S) == CHOOSE x \in S : \A y \in S : y <= x

\* the confidence lexical_overlap gives one entity, 0 when it is left out
LexicalScore(t, e, rapidfuzz) ==
    IF rapidfuzz
    THEN LET best == SetMax({partial_ratio(t, cnd) : cnd \in {e.name} \cup e.synonyms})
         IN  IF best >= 70 THEN best ELSE 0
    ELSE IF Has(t, e.name) THEN 100
    ELSE IF HasAny(t, e.synonyms) THEN 80
    ELSE 0

\* SemanticEntityResolver.lexical_overlap and _simple_lexical_overlap
lexical_overlap(t, rapidfuzz) ==
    LET all == [i \in 1..Len(EntityOrder) |->
                   Cand(EntityOrder[i],
                        LexicalScore(t, EntityOf(EntityOrder[i]), rapidfuzz),
                        EntityOrder[i])]
        Kept(c) == c.conf > 0
    IN  SelectSeq(all, Kept)

\* the two loops over semantic_entities and lexical_entities with seen_entities
RECURSIVE MergeByName(_, _)
MergeByName(acc, more) ==
    IF more = << >> THEN acc
    ELSE IF \E i \in 1..Len(acc) : acc[i].name = Head(more).name
    THEN MergeByName(acc, Tail(more))
    ELSE MergeByName(Append(acc, Head(more)), Tail(more))

\* entity_score of route
entity_score(c, sem) ==
    c.conf + (IF \E i \in 1..Len(sem) : sem[i].name = c.name THEN 10 ELSE 0)
           + NameLen(c.name)

\* max(entity_results, key=entity_score): the first candidate with the top score
BestIndex(results, sem) ==
    CHOOSE i \in 1..Len(results) :
        /\ \A j \in 1..Len(results) :
              entity_score(results[j], sem) <= entity_score(results[i], sem)
        /\ \A j \in 1..(i - 1) :
              entity_score(results[j], sem) < entity_score(results[i], sem)

(***************************************************************************)
(* Decisions                                                               *)
(***************************************************************************)
NoArgs == [hand |-> "", target |-> "", operation |-> "", value |-> VNone]
Args(h, t, o, v) == [hand |-> h, target |-> t, operation |-> o, value |-> v]

NoConf == [kind |-> "absent", intent |-> 0, entity |-> 0, value |-> 0]
Triple(i, e, v) == [kind |-> "triple", intent |-> i, entity |-> e, value |-> v]
Scalar(c) == [kind |-> "scalar", intent |-> 0, entity |-> c, value |-> 0]

\* one entry of the clarifications list: what it asks and the names it lists
Item(kind, names) == [kind |-> kind, names |-> names]

Decision(type, branch, tool, a, conf, message, clar) ==
    [type |-> type, branch |-> branch, tool |-> tool, arguments |-> a,
     confidence |-> conf, message |-> message, clarifications |-> clar]

ToolAction(branch, a, conf) ==
    Decision("tool_action", branch, "control", a, conf, "", << >>)

Clarification(branch, conf, message, clar) ==
    Decision("clarification", branch, "", NoArgs, conf, message, clar)

Answer(branch, conf, message) ==
    Decision("answer", branch, "", NoArgs, conf, message, << >>)

\* route did not return: the exception left it
Raised(branch, what) ==
    Decision("exception", branch, "", NoArgs, NoConf, what, << >>)

\* the entities of one type, in catalog order
NamesOfType(type) ==
    LET OfType(n) == EntityOf(n).type = type
    IN  SelectSeq(EntityOrder, OfType)

Prefix(sq, n) == SubSeq(sq, 1, Min(n, Len(sq)))

\* the canonical names of the first five candidates, without repeats
RECURSIVE CanonicalNames(_, _)
CanonicalNames(acc, cands) ==
    IF cands = << >> THEN acc
    ELSE IF \E i \in 1..Len(acc) : acc[i] = Head(cands).ent
    THEN CanonicalNames(acc, Tail(cands))
    ELSE CanonicalNames(Append(acc, Head(cands).ent), Tail(cands))

\* the loop that fills candidate_names up with switch names until it holds five
RECURSIVE AddSwitches(_, _)
AddSwitches(acc, switches) ==
    IF switches = << >> THEN acc
    ELSE LET nm == Head(switches)
             grown == IF \E i \in 1..Len(acc) : acc[i] = nm THEN acc ELSE Append(acc, nm)
         IN  IF Len(grown) >= 5 THEN grown ELSE AddSwitches(grown, Tail(switches))

\* DecisionRouter._detect_value_target: the value-type entities the text names
ValueTargetMatches(t) ==
    LET Named(n) == EntityOf(n).type = "value"
                      /\ (Has(t, n) \/ HasAny(t, EntityOf(n).synonyms))
    IN  SelectSeq(EntityOrder, Named)

_detect_value_target(t) ==
    LET matches == ValueTargetMatches(t)
    IN  IF Len(matches) = 1 THEN matches[1] ELSE ""

(***************************************************************************)
(* Response synthesis                                                      *)
(***************************************************************************)
\* DecisionRouter._generate_clarification; has_entity is `entity is not None`
_generate_clarification(intent, has_entity, entity_conf, value_result, candidates) ==
    LET unclear == ~has_entity \/ entity_conf < 50
        one == IF value_result.found /\ unclear /\ NamesOfType("value") # << >>
               THEN <<Item("which_control", Prefix(NamesOfType("value"), 4))>>
               ELSE << >>
        switch_names == AddSwitches(CanonicalNames(<< >>, Prefix(candidates, 5)),
                                    NamesOfType("switch"))
        two == IF intent.label \in {"control_on", "control_off"} /\ unclear
                  /\ switch_names # << >>
               THEN <<Item("which_element", Prefix(switch_names, 5))>>
               ELSE << >>
        info_names == CanonicalNames(<< >>, Prefix(candidates, 5))
        three == IF intent.label \in {"info_definition", "info_location"} /\ unclear
                    /\ info_names # << >>
                 THEN <<Item("whose_info", Prefix(info_names, 5))>>
                 ELSE << >>
        specific == one \o two \o three
        four == IF intent.conf < 60 /\ specific = << >>
                THEN <<Item("nudge", << >>)>>
                ELSE specific
        five == IF four = << >> THEN <<Item("specify", << >>)>> ELSE four
    IN  Clarification("low_confidence",
                      Triple(intent.conf, entity_conf, value_result.conf),
                      "I need a bit more detail:", five)

\* a slip in the hand assignment: the override applied to every other type
HandForInverted(type) == IF type = "skull_model" THEN "right" ELSE "left"

\* the hand of a control action: right, except for the skull model
HandFor(type) == IF type = "skull_model" THEN "left" ELSE "right"

\* DecisionRouter._generate_control_action
_generate_control_action(label, has_entity, entity, value_result) ==
    IF ~has_entity
    THEN Clarification("control_no_entity", NoConf,
                       "Which element would you like to control?",
                       <<Item("specify_target", << >>)>>)
    ELSE LET canonical_target == entity.ent
             hand == HandFor(EntityOf(entity.ent).type)
             value_conf == IF value_result.found THEN value_result.conf ELSE 0
         IN  IF label = "control_on"
             THEN ToolAction("control", Args(hand, canonical_target, "set", VStr("on")),
                             Triple(80, entity.conf, value_conf))
             ELSE IF label = "control_off"
             THEN ToolAction("control", Args(hand, canonical_target, "set", VStr("off")),
                             Triple(80, entity.conf, value_conf))
             ELSE IF label = "control_value" /\ value_result.found
             THEN ToolAction("control",
                             Args(hand, canonical_target, "set", value_result.val),
                             Triple(80, entity.conf, value_conf))
             ELSE IF label = "control_value"
             THEN Clarification("value_missing", Triple(80, entity.conf, 0),
                                "What value should I set for <target>?",
                                <<Item("example_set", <<canonical_target>>),
                                  Item("example_percent", <<canonical_target>>)>>)
             ELSE ToolAction("control", Args(hand, canonical_target, "toggle", VNone),
                             Triple(80, entity.conf, value_conf))

\* DecisionRouter._generate_info_response
_generate_info_response(label, has_entity, entity) ==
    IF ~has_entity
    THEN Clarification("info_no_entity", NoConf, "What would you like to know about?",
                       <<Item("specify_element", << >>)>>)
    ELSE IF label = "info_definition"
    THEN Answer("info", Scalar(entity.conf), "definition")
    ELSE IF label = "info_location"
    THEN Answer("info", Scalar(entity.conf), "location")
    ELSE Answer("info", Scalar(entity.conf), "information")

\* DecisionRouter._generate_fallback_response
_generate_fallback_response ==
    Clarification("fallback", NoConf, "I'm not sure what you're asking for.",
                  <<Item("try_definition", << >>), Item("try_control", << >>),
                    Item("try_location", << >>)>>)

\* DecisionRouter._generate_size_request_response
_generate_size_request_response ==
    Clarification("size_request", Triple(80, 0, 0), "Which size for implants?",
                  <<Item("size_ranges", <<"height_y_mm", "length_z_mm">>),
                    Item("size_example", << >>)>>)

\* info_response["answer"] and the other subscripts of the logging calls of route:
\* a decision without the key makes the subscript raise KeyError
LoggedInfo(response) ==
    IF response.type = "answer" THEN response
    ELSE Raised(response.branch, "KeyError: 'answer'")

\* the keys of the dict a generator of route returns: an answer carries its text
\* under "answer", a clarification under "message"; "confidence" is left out
\* by the generators that have none
Keys(d) ==
    CASE d.type = "tool_action" -> {"type", "tool", "arguments", "confidence"}
      [] d.type = "answer" -> {"type", "answer", "context_used", "confidence"}
      [] d.type = "clarification" ->
            {"type", "message", "clarifications"}
                \cup (IF d.confidence.kind = "absent" THEN {} ELSE {"confidence"})
      [] OTHER -> {}

\* the pydantic models ToolAction, AnswerResponse and ClarificationResponse:
\* the required fields are present and confidence, when given, has the
\* declared type (a mapping to floats, or one float for an answer)
FitsSchema(d) ==
    CASE d.type = "tool_action" ->
            /\ {"tool", "arguments"} \subseteq Keys(d)
            /\ "confidence" \in Keys(d) => d.confidence.kind = "triple"
      [] d.type = "answer" ->
            /\ {"message", "context_used"} \subseteq Keys(d)
            /\ "confidence" \in Keys(d) => d.confidence.kind = "scalar"
      [] d.type = "clarification" ->
            /\ {"message", "clarifications"} \subseteq Keys(d)
            /\ "confidence" \in Keys(d) => d.confidence.kind = "triple"
      [] OTHER -> FALSE

\* validate_response(response): whether the result holds the key "error"
validate_response(d) == [error |-> ~FitsSchema(d)]

StartsWithControl(label) == label \in {"control_on", "control_off", "control_value"}
StartsWithInfo(label) == label \in {"info_definition", "info_location"}

(***************************************************************************)
(* DecisionRouter.route                                                    *)
(***************************************************************************)
\* what route computes from the text alone, before any oracle is consulted
Leaves(t, c) ==
    [fast_value |-> parse_value(t),
     target_name |-> _detect_value_target(t),
     classified |-> classify(t, c.classifier),
     fuzzy |-> _fuzzy_intent_match(t, c.rapidfuzz),
     intent |-> IntentAfterFuzzy(t, c),
     implant_request |-> Has(t, "implant") /\ (Has(t, "give me") \/ Has(t, "provide me")),
     digit |-> HasDigit(t),
     show_implant |-> Has(t, "show me") /\ Has(t, "implant"),
     lexical |-> lexical_overlap(t, c.rapidfuzz)]

\* route, step 1 with the tie-break and the implant override
IntentOf(lv, reply) ==
    ImplantOverride(TieBreak(lv.intent, reply), lv.implant_request, lv.digit)

\* whether route consults the completion oracle
NeedsLLM(lv) == ~lv.fast_value.found /\ lv.intent.conf < IntentThreshold

\* steps 2 and 3 of route: the merged candidates, the best one, the parsed value
Resolved(lv, intent, sem) ==
    LET entity_results == MergeByName(<< >>, sem \o lv.lexical)
        has_entity == entity_results # << >>
        best_entity == IF has_entity THEN entity_results[BestIndex(entity_results, sem)]
                       ELSE Cand("", 0, "")
        value_result == IF intent.label \in {"control_value", "size_request"}
                        THEN lv.fast_value ELSE NoParse
    IN  [entity_results |-> entity_results, has_entity |-> has_entity,
         best_entity |-> best_entity, entity_confidence |-> best_entity.conf,
         value_result |-> value_result]

\* step 4 of route
overall_confidence(intent, entity_confidence) ==
    IF entity_confidence > 0 THEN Min(intent.conf, entity_confidence) ELSE intent.conf

\* step 0 of route: the fast path, "" when the call goes on to classification
FastPath(fast_value, target_name) ==
    IF fast_value.found /\ target_name # ""
    THEN ToolAction("fast_path", Args("right", target_name, "set", fast_value.val),
                    Triple(85, 75, fast_value.conf))
    ELSE Clarification("fast_path", Triple(70, 20, fast_value.conf),
                       "I detected value <value>. Which control should I apply it to?",
                       <<Item("choose_one", <<"contrast", "brightness">>)>>)

\* the question route asks about "show me ... implant" at low intent confidence
DualMeaning(lv, intent) == lv.show_implant /\ intent.conf < 70

\* steps 4 and 5 of route: the cutoff, then the branch on the intent label
Arbitrate(intent, r) ==
    IF overall_confidence(intent, r.entity_confidence) < RouterCutoff
    THEN _generate_clarification(intent, r.has_entity, r.entity_confidence,
                                 r.value_result, Prefix(r.entity_results, 5))
    ELSE IF StartsWithControl(intent.label)
    THEN _generate_control_action(intent.label, r.has_entity, r.best_entity,
                                  r.value_result)
    ELSE IF StartsWithInfo(intent.label)
    THEN LoggedInfo(_generate_info_response(intent.label, r.has_entity, r.best_entity))
    ELSE IF intent.label = "size_request"
    THEN _generate_size_request_response
    ELSE _generate_fallback_response

\* route's local variables at its return; 0 and "" for those it never assigned
NoLeaves ==
    [fast_value |-> NoParse, target_name |-> "", classified |-> Intent("", 0),
     fuzzy |-> Intent("", 0), intent |-> Intent("", 0), implant_request |-> FALSE,
     digit |-> FALSE, show_implant |-> FALSE, lexical |-> << >>]

NoSignals ==
    [intent_label |-> "", intent_confidence |-> 0, asked_llm |-> FALSE, llm_reply |-> "",
     leaves |-> NoLeaves,
     has_entity |-> FALSE, entity_confidence |-> 0, candidates |-> << >>]

\* one call of route for one reply of the completion oracle and one result of
\* the embedding path: the decision it returns and its local variables
RouteCall(lv, reply, sem) ==
    IF lv.fast_value.found
    THEN [decision |-> FastPath(lv.fast_value, lv.target_name), signals |-> NoSignals]
    ELSE LET intent == IntentOf(lv, reply)
         IN  IF DualMeaning(lv, intent)
             THEN [decision |->
                      Clarification("dual_meaning", Triple(intent.conf, 40, 0),
                          "Do you want to show the implants overlay or hear a quick definition?",
                          <<Item("turn_on_overlay", <<"implants">>),
                            Item("tell_me_about", <<"implants">>)>>),
                   signals |->
                      [intent_label |-> intent.label,
                       intent_confidence |-> intent.conf, asked_llm |-> NeedsLLM(lv),
                       llm_reply |-> reply, leaves |-> lv,
                       has_entity |-> FALSE, entity_confidence |-> 0,
                       candidates |-> << >>]]
             ELSE LET r == Resolved(lv, intent, sem)
                  IN  [decision |-> Arbitrate(intent, r),
                       signals |->
                          [intent_label |-> intent.label,
                           intent_confidence |-> intent.conf, asked_llm |-> NeedsLLM(lv),
                           llm_reply |-> reply, leaves |-> lv,
                           has_entity |-> r.has_entity,
                           entity_confidence |-> r.entity_confidence,
                           candidates |-> r.entity_results]]

\* DecisionRouter.route(text)
route(t, c, reply, sem) == RouteCall(Leaves(t, c), reply, sem).decision

\* whether the call gets past the fast path and the dual-meaning question
ReachesResolution(lv, reply) ==
    ~lv.fast_value.found /\ ~DualMeaning(lv, IntentOf(lv, reply))

(***************************************************************************)
(* ToolValidator: app/tools/control.py                                     *)
(***************************************************************************)
ALLOWED_HANDS == {"left", "right", "none"}

\* a target that is not a string (None, a number)
NotAString == "<not a string>"

\* a dimension entry that is present but holds a non-numeric string, or None
NotANumber == -2
Null == -3

\* _get_entities: the validator's two catalogs
switch_targets == {e.name : e \in {x \in Entities : x.type = "switch"}}
value_targets == {e.name : e \in {x \in Entities : x.type = "control"}}

NoError == [text |-> "", ranged |-> FALSE, min |-> 0, max |-> 0]
Err(msg) == [text |-> msg, ranged |-> FALSE, min |-> 0, max |-> 0]
RangeErr(msg, lo, hi) == [text |-> msg, ranged |-> TRUE, min |-> lo, max |-> hi]

Rejected(e) == [ok |-> FALSE, error |-> e, applied |-> NoArgs, raised |-> ""]
Accepted(a, v) ==
    [ok |-> TRUE, error |-> NoError,
     applied |-> Args(a.hand, a.target, a.operation, v), raised |-> ""]
Thrown(what) == [ok |-> FALSE, error |-> NoError, applied |-> NoArgs, raised |-> what]

\* the implants branch of _validate for a size object
ValidateSize(a) ==
    LET h == a.value.h
        l == a.value.l
    IN  IF h = NotANumber THEN Thrown("ValueError")
        ELSE IF h \notin {Absent, Null} /\ ~InRange(h, HeightMin, HeightMax)
        THEN Rejected(RangeErr("height_y_mm out of range", HeightMin, HeightMax))
        ELSE IF l = NotANumber THEN Thrown("ValueError")
        ELSE IF l \notin {Absent, Null} /\ ~InRange(l, LengthMin, LengthMax)
        THEN Rejected(RangeErr("length_z_mm out of range", LengthMin, LengthMax))
        ELSE IF h = Null \/ l = Null THEN Thrown("TypeError")
        ELSE Accepted(a, a.value)

\* _validate followed by control_handler
control_handler(a) ==
    IF a.hand \notin ALLOWED_HANDS THEN Rejected(Err("invalid hand"))
    ELSE IF a.target = NotAString THEN Rejected(Err("target required"))
    ELSE IF a.operation \notin {"set", "toggle"}
    THEN Rejected(Err("operation must be 'set' or 'toggle'"))
    ELSE IF /\ a.hand = "left" /\ a.target \in (switch_targets \cup value_targets)
            /\ a.target # "skull_model"
    THEN Rejected(Err("left hand cannot control this target"))
    ELSE IF a.target \in switch_targets
    THEN IF a.operation = "set"
         THEN IF a.value.k = "map" THEN Thrown("TypeError")
              ELSE IF ~(a.value.k = "str" /\ a.value.s \in {"on", "off"})
              THEN Rejected(Err("value must be 'on' or 'off'"))
              ELSE Accepted(a, a.value)
         ELSE Accepted(a, VStr("toggle"))
    ELSE IF a.target \in value_targets
    THEN IF a.value.k # "num" THEN Rejected(Err("value must be a number"))
         ELSE IF ~InRange(a.value.n, RangeOf(a.target).min, RangeOf(a.target).max)
         THEN Rejected(RangeErr("value out of range",
                                RangeOf(a.target).min, RangeOf(a.target).max))
         ELSE Accepted(a, a.value)
    ELSE IF a.target = "implants"
    THEN IF a.value.k = "str"
         THEN IF a.value.s \notin {"on", "off"}
              THEN Rejected(Err("implants value must be 'on' or 'off' or size object"))
              ELSE Accepted(a, a.value)
         ELSE IF a.value.k = "map" THEN ValidateSize(a)
         ELSE Rejected(Err("invalid implants value"))
    ELSE Rejected(Err("unknown target"))

\* argument mappings a caller can hand to the validator
ArgHands == ALLOWED_HANDS \cup {"both"}
ArgTargets == EntityNames \cup {"drill", NotAString}
ArgOperations == {"set", "toggle", "unset"}
ArgValues ==
    {VNone, VStr("on"), VStr("off"), VStr("maybe"), VNum(0), VNum(500), VNum(1500)}
        \cup {VMap(h, l) : h \in {Absent, Null, NotANumber, 40, 90},
                           l \in {Absent, NotANumber, 115, 200}}
ArgSpace ==
    {Args(h, t, o, v) : h \in ArgHands, t \in ArgTargets, o \in ArgOperations,
                        v \in ArgValues}

(***************************************************************************)
(* Retriever: app/rag/retriever.py                                         *)
(* Scores of the vector index and lexical scores are in hundredths, the    *)
(* hybrid weights in tenths; a fused score is kept as an exact fraction.   *)
(***************************************************************************)
ChunkIds == {"c1", "c2", "c3"}

\* Chunk.id descending: the order in which _lexical_scores scans the chunks
ScanOrder == <<"c3", "c2", "c1">>

\* the defaults of retrieve: k, and top_k semantic / lexical / final
DefaultK == 6
SemanticK == 10
LexicalK == 5
FinalK == 8

\* one (id, score, metadata) of FAISSVectorStore.query
Hit(id, s) == [id |-> id, score |-> s]

\* inner products of normalized vectors the index can return
IndexScores == {-50, -20, 0, 40}

HitLists == UNION {[1..n -> {Hit(i, s) : i \in ChunkIds, s \in IndexScores}] : n \in 0..MaxHits}

\* hybrid_weights of the retrieval configuration
WeightChoices ==
    {[semantic |-> 10, lexical |-> 0], [semantic |-> 0, lexical |-> 10],
     [semantic |-> 7, lexical |-> 3]}

\* the number of query tokens of three letters or more, and for each chunk how
\* many of them its text holds
TokenCounts == {0, 2}
TermHits == {th \in [tokens : TokenCounts, hits : [ChunkIds -> 0..2]] :
                \A c \in ChunkIds : th.hits[c] <= th.tokens}

Rat(n, d) == [num |-> n, den |-> d]
RatLeq(x, y) ==
    IF x.den = y.den THEN x.num <= y.num ELSE x.num * y.den <= y.num * x.den
Abs(x) == IF x < 0 THEN -x ELSE x

\* list.sort(key=..., reverse=True) / sorted(..., reverse=True): descending and
\* stable, an item goes behind the items whose key is at least its own
RECURSIVE InsertDesc(_, _)
InsertDesc(x, sorted) ==
    IF sorted = << >> THEN <<x>>
    ELSE IF RatLeq(x.score, Head(sorted).score)
    THEN <<Head(sorted)>> \o InsertDesc(x, Tail(sorted))
    ELSE <<x>> \o sorted

RECURSIVE SortDesc(_, _)
SortDesc(done, rest) ==
    IF rest = << >> THEN done
    ELSE SortDesc(InsertDesc(Head(rest), done), Tail(rest))

\* one (cid, score, meta) of retrieve's result; pos is the position of the
\* vector-index hit the metadata came from, 0 for a lexical-only item
Scored(id, score, pos) == [id |-> id, score |-> score, pos |-> pos]

\* Retriever._lexical_scores: hits / max(1, len(tokens)) capped at 1.0 for the
\* chunks with a hit, the best `limit` of them, as (id, score) in dict order
_lexical_scores(th, limit) ==
    IF th.tokens = 0 THEN << >>
    ELSE LET Hitting(c) == th.hits[c] > 0
             found == SelectSeq(ScanOrder, Hitting)
             items == [i \in 1..Len(found) |->
                          Scored(found[i],
                                 Rat(Min(100, (th.hits[found[i]] * 100) \div Max(1, th.tokens)), 100),
                                 0)]
         IN  Prefix(SortDesc(<< >>, items), limit)

\* lex_scores.get(id, 0.0), in hundredths
LexGet(lex, id) ==
    IF \E i \in 1..Len(lex) : lex[i].id = id
    THEN (CHOOSE x \in {lex[i] : i \in 1..Len(lex)} : x.id = id).score.num
    ELSE 0

\* max((s for _, s, _ in sem), default=1.0) or 1.0
MaxSem(hits) ==
    LET m == SetMax({hits[i].score : i \in 1..Len(hits)})
    IN  IF m = 0 THEN 100 ELSE m

\* semantic_weight * (s / max_sem) + lexical_weight * ls
Fused(w, s, ls, max_sem) ==
    LET n == w.semantic * s * 100 + w.lexical * ls * max_sem
    IN  IF max_sem < 0 THEN Rat(-n, 1000 * Abs(max_sem)) ELSE Rat(n, 1000 * max_sem)

\* Retriever.retrieve(query, k) on the hits of the vector index
retrieve(w, hits, th, k) ==
    LET lex == _lexical_scores(th, LexicalK)
    IN  IF hits = << >>
        THEN Prefix(SortDesc(<< >>, lex), k)
        ELSE LET combined == [i \in 1..Len(hits) |->
                                 Scored(hits[i].id,
                                        Fused(w, hits[i].score, LexGet(lex, hits[i].id),
                                              MaxSem(hits)),
                                        i)]
             IN  Prefix(SortDesc(<< >>, combined), FinalK)

\* len("\n\n".join(parts)) for texts of these lengths
JoinedLen(lens) ==
    LET RECURSIVE Sum(_)
        Sum(sq) == IF sq = << >> THEN 0 ELSE Head(sq) + Sum(Tail(sq))
    IN  IF lens = << >> THEN 0 ELSE Sum(lens) + 2 * (Len(lens) - 1)

\* the loop of build_context: seen ids are skipped, a missing or empty text is
\* skipped, the loop stops once the joined parts reach max_chars
RECURSIVE ContextParts(_, _, _, _, _)
ContextParts(parts, seen, rest, lookup, budget) ==
    IF rest = << >> THEN parts
    ELSE LET cid == Head(rest).id
         IN  IF cid \in seen THEN ContextParts(parts, seen, Tail(rest), lookup, budget)
             ELSE IF lookup[cid] = 0
             THEN ContextParts(parts, seen \cup {cid}, Tail(rest), lookup, budget)
             ELSE LET grown == Append(parts, cid)
                      lens == [i \in 1..Len(grown) |-> lookup[grown[i]]]
                  IN  IF JoinedLen(lens) >= budget THEN grown
                      ELSE ContextParts(grown, seen \cup {cid}, Tail(rest), lookup, budget)

\* Retriever.build_context: the chunks joined and the length of the string
build_context(retrieved_list, lookup, budget) ==
    LET parts == ContextParts(<< >>, {}, retrieved_list, lookup, budget)
    IN  [parts |-> parts,
         length |-> JoinedLen([i \in 1..Len(parts) |-> lookup[parts[i]]])]

\* chunk_lookup: the length of the text stored for an id, 0 when it is missing
\* or empty; and the character budgets
TextLengths == {0, 5}
Budgets == {3, 12}

(***************************************************************************)
(* The state machine                                                       *)
(***************************************************************************)
\* every part but the router and the validator, and those parts left unused
outsideRouter == <<ragVars, parserVars, storeVars, notesVars, chunkerVars, svcVars, logVars>>
outsideRag == <<routerVars, parserVars, storeVars, notesVars, chunkerVars, svcVars, logVars>>
outsideParser == <<routerVars, ragVars, storeVars, notesVars, chunkerVars, svcVars, logVars>>
outsideStore == <<routerVars, ragVars, parserVars, notesVars, chunkerVars, svcVars, logVars>>
outsideNotes == <<routerVars, ragVars, parserVars, storeVars, chunkerVars, svcVars, logVars>>
outsideChunker == <<routerVars, ragVars, parserVars, storeVars, notesVars, svcVars, logVars>>
outsideServices == <<routerVars, ragVars, parserVars, storeVars, notesVars, chunkerVars, logVars>>
outsideLog == <<routerVars, ragVars, parserVars, storeVars, notesVars, chunkerVars, svcVars>>

DefaultMaxChars == 3500
NoContext == [parts |-> << >>, length |-> 0]

RagIdle ==
    /\ rag_pc = "unused"
    /\ weights = [semantic |-> 7, lexical |-> 3]
    /\ store_hits = << >>
    /\ term_hits = [tokens |-> 0, hits |-> [c \in ChunkIds |-> 0]]
    /\ retrieved = << >>
    /\ chunk_lookup = [c \in ChunkIds |-> 0]
    /\ max_chars = DefaultMaxChars
    /\ context = NoContext

ParserIdle ==
    /\ parse_pc = "unused"
    /\ parse_text = << >>
    /\ implant_ranges = [height |-> DefaultHeightRange, length |-> DefaultLengthRange]
    /\ parsed = NoParse

\* FAISSVectorStore.__init__ without stored files: an empty index and lists
NoHit == [pos |-> 0, entry |-> 0, meta |-> 0]
NoResult == [status |-> "none", id |-> 0, meta |-> 0, entry |-> 0]
StoreEmpty ==
    /\ index = << >>
    /\ ids = << >>
    /\ metadatas = << >>
    /\ upserted = 0
    /\ batch = << >>
    /\ hit = NoHit
    /\ result = NoResult

StoreIdle == StoreEmpty /\ writer_pc = "unused" /\ reader_pc = "unused"

\* the notes service over empty tables
SessionIds == {"s1", "s2"}
NoOp == [op |-> "none", session_id |-> ""]
Op(name, s) == [op |-> name, session_id |-> s]
NotesEmpty ==
    /\ sessions = {}
    /\ notes = << >>
    /\ notes_op = NoOp
    /\ returned = {}
    /\ added = [s \in SessionIds |-> {}]

NotesIdle == NotesEmpty

\* the chunker left unused
SplitArgs(t, size, overlap) == [text |-> t, max_chars |-> size, overlap |-> overlap]
ChunkerIdle ==
    /\ split_pc = "unused"
    /\ split_args = SplitArgs(<< >>, 1200, 150)
    /\ split_start = 0
    /\ chunks = << >>

\* the requests that run concurrently, and the store objects they can build
Requests == {"r1", "r2"}
StoreObjects == 1..Cardinality(Requests)
NoRetriever == [built |-> FALSE, store |-> 0]
NothingSeen == [by |-> "", chunks |-> {}, ingested |-> 0]
RetrieverOf(store) == [built |-> TRUE, store |-> store]

\* routes.py as imported: every singleton is None
ServicesUnbuilt ==
    /\ _tools = ""
    /\ _vector_store = 0
    /\ _retriever = NoRetriever
    /\ _agent = ""
    /\ info_retriever = NoRetriever
    /\ svc_made = [r \in Requests |-> NoRetriever]
    /\ contents = [o \in StoreObjects |-> {}]
    /\ ingested = 0
    /\ chat_seen = NothingSeen

ServicesIdle == ServicesUnbuilt /\ svc_pc = [r \in Requests |-> "unused"]

\* the scene log as imported: _log_messages = []
LogEmpty ==
    /\ _log_messages = << >>
    /\ posted = 0
    /\ log_reply = 0
    /\ idx = 0
    /\ delivered = << >>

LogIdle == LogEmpty /\ log_pc = "unused"

OutsideRouterIdle == RagIdle /\ ParserIdle /\ StoreIdle /\ NotesIdle /\ ChunkerIdle /\ ServicesIdle /\ LogIdle

Pending == Decision("pending", "", "", NoArgs, NoConf, "", << >>)
NoVerdict == [ok |-> FALSE, error |-> NoError, applied |-> NoArgs, raised |-> "<none>"]
\* the replies that can reach this call: the oracle is asked only on the tie-break
ReplyChoices(lv) == IF NeedsLLM(lv) THEN LLMReplies ELSE {""}

\* the embedding results that can reach this call
SemChoices(lv, reply) == IF ReachesResolution(lv, reply) THEN SemResults ELSE {<< >>}

Init ==
    /\ pc = "idle"
    /\ cfg \in [classifier : BOOLEAN, rapidfuzz : BOOLEAN]
    /\ text \in Utterances
    /\ signals = NoSignals
    /\ decision = Pending
    /\ args = NoArgs
    /\ verdict = NoVerdict
    /\ again = Pending
    /\ OutsideRouterIdle

\* one call route(text); a tool_action is handed on to the validator
Route ==
    /\ pc = "idle"
    /\ \E lv \in {Leaves(text, cfg)} :
         \E reply \in ReplyChoices(lv) :
            \E sem \in SemChoices(lv, reply) :
               \E out \in {RouteCall(lv, reply, sem)} :
                  /\ decision' = out.decision
                  /\ signals' = out.signals
    /\ args' = IF decision'.type = "tool_action" THEN decision'.arguments ELSE NoArgs
    /\ pc' = IF decision'.type = "tool_action" THEN "proposed" ELSE "done"
    /\ UNCHANGED <<cfg, text, verdict, again>>
    /\ UNCHANGED outsideRouter

\* control_handler(args) on the proposed arguments
Validate ==
    /\ pc = "proposed"
    /\ verdict' = control_handler(args)
    /\ pc' = "validated"
    /\ UNCHANGED <<cfg, text, signals, decision, args, again>>
    /\ UNCHANGED outsideRouter

Next == Route \/ Validate

Spec == Init /\ [][Next]_vars

\* the validator on its own, over every argument mapping of ArgSpace
InitValidator ==
    /\ pc = "proposed"
    /\ cfg = [classifier |-> TRUE, rapidfuzz |-> TRUE]
    /\ text = << >>
    /\ signals = NoSignals
    /\ decision = Pending
    /\ args \in ArgSpace
    /\ verdict = NoVerdict
    /\ again = Pending
    /\ OutsideRouterIdle

NextValidator == Validate

SpecValidator == InitValidator /\ [][NextValidator]_vars

\* the embedding path is a function of the text: where the first call asked
\* it, a second call merges the same candidates
SameEmbedding(lv, sem) ==
    decision.branch \notin {"fast_path", "dual_meaning"}
        => MergeByName(<< >>, sem \o lv.lexical) = signals.candidates

\* a second call route(text) with the same text under the same configuration;
\* the completion oracle is asked anew
RouteAgain ==
    /\ pc \in {"proposed", "done"}
    /\ \E lv \in {Leaves(text, cfg)} :
         \E reply \in ReplyChoices(lv) :
            \E sem \in {x \in SemChoices(lv, reply) : SameEmbedding(lv, x)} :
               again' = RouteCall(lv, reply, sem).decision
    /\ pc' = "repeated"
    /\ UNCHANGED <<cfg, text, signals, decision, args, verdict>>
    /\ UNCHANGED outsideRouter

NextTwice == Route \/ RouteAgain

SpecTwice == Init /\ [][NextTwice]_vars

\* the router and the validator left unused
RouterIdle ==
    /\ pc = "unused"
    /\ cfg = [classifier |-> FALSE, rapidfuzz |-> TRUE]
    /\ text = << >>
    /\ signals = NoSignals
    /\ decision = Pending
    /\ args = NoArgs
    /\ verdict = NoVerdict
    /\ again = Pending

OutsideRagIdle == RouterIdle /\ ParserIdle /\ StoreIdle /\ NotesIdle /\ ChunkerIdle /\ ServicesIdle /\ LogIdle
OutsideParserIdle == RouterIdle /\ RagIdle /\ StoreIdle /\ NotesIdle /\ ChunkerIdle /\ ServicesIdle /\ LogIdle
OutsideStoreIdle == RouterIdle /\ RagIdle /\ ParserIdle /\ NotesIdle /\ ChunkerIdle /\ ServicesIdle /\ LogIdle
OutsideNotesIdle == RouterIdle /\ RagIdle /\ ParserIdle /\ StoreIdle /\ ChunkerIdle /\ ServicesIdle /\ LogIdle
OutsideChunkerIdle == RouterIdle /\ RagIdle /\ ParserIdle /\ StoreIdle /\ NotesIdle /\ ServicesIdle /\ LogIdle
OutsideServicesIdle == RouterIdle /\ RagIdle /\ ParserIdle /\ StoreIdle /\ NotesIdle /\ ChunkerIdle /\ LogIdle
OutsideLogIdle == RouterIdle /\ RagIdle /\ ParserIdle /\ StoreIdle /\ NotesIdle /\ ChunkerIdle /\ ServicesIdle

\* one retrieval for one query: the configuration, the answer of the vector
\* index and the term overlap of the stored chunks are the call's inputs
InitRetriever ==
    /\ rag_pc = "idle"
    /\ weights \in WeightChoices
    /\ store_hits \in HitLists
    /\ term_hits \in TermHits
    /\ retrieved = << >>
    /\ chunk_lookup = [c \in ChunkIds |-> 0]
    /\ max_chars = DefaultMaxChars
    /\ context = NoContext
    /\ OutsideRagIdle

\* retrieved = retriever.retrieve(query, k=6)
Retrieve ==
    /\ rag_pc = "idle"
    /\ retrieved' = retrieve(weights, store_hits, term_hits, DefaultK)
    /\ rag_pc' = "retrieved"
    /\ UNCHANGED <<weights, store_hits, term_hits, chunk_lookup, max_chars, context>>
    /\ UNCHANGED outsideRag

\* context = retriever.build_context(query, retrieved, lookup, max_chars)
BuildContext ==
    /\ rag_pc = "retrieved"
    /\ \E lookup \in [ChunkIds -> TextLengths] : \E budget \in Budgets :
          /\ chunk_lookup' = lookup
          /\ max_chars' = budget
          /\ context' = build_context(retrieved, lookup, budget)
    /\ rag_pc' = "built"
    /\ UNCHANGED <<weights, store_hits, term_hits, retrieved>>
    /\ UNCHANGED outsideRag

NextRetriever == Retrieve \/ BuildContext

SpecRetriever == InitRetriever /\ [][NextRetriever]_vars

\* one call of the parser on a text under a configuration
InitParser ==
    /\ parse_pc = "idle"
    /\ parse_text \in ParserTexts
    /\ implant_ranges \in ImplantRanges
    /\ parsed = NoParse
    /\ OutsideParserIdle

\* numeric_parser.parse_value(text)
Parse ==
    /\ parse_pc = "idle"
    /\ parsed' = parse_value_in(parse_text, implant_ranges.height, implant_ranges.length)
    /\ parse_pc' = "parsed"
    /\ UNCHANGED <<parse_text, implant_ranges>>
    /\ UNCHANGED outsideParser

NextParser == Parse

SpecParser == InitParser /\ [][NextParser]_vars

(***************************************************************************)
(* FAISSVectorStore shared by an ingesting request and a querying request  *)
(* (app/rag/faiss_store.py, app/routes.py).  Nothing in either file takes  *)
(* a lock, so the threads of the server interleave between statements.     *)
(* An entry is the number of the vector; id and metadata of entry n are n. *)
(***************************************************************************)
Documents == {"d1", "d2"}
Entry(n, d) == [n |-> n, doc |-> d]
BatchSizes == {1, 2}

InitStore == StoreEmpty /\ writer_pc = "idle" /\ reader_pc = "idle" /\ OutsideStoreIdle

\* upsert(ids, embeddings, metadatas) up to self.index.add(vectors)
UpsertAdd ==
    /\ writer_pc = "idle"
    /\ \E size \in BatchSizes : \E d \in Documents :
          /\ upserted + size <= MaxEntries
          /\ batch' = [i \in 1..size |-> Entry(upserted + i, d)]
          /\ upserted' = upserted + size
    /\ index' = index \o batch'
    /\ writer_pc' = "upsert_ids"
    /\ UNCHANGED <<ids, metadatas, reader_pc, hit, result>>
    /\ UNCHANGED outsideStore

\* self.ids.extend(ids)
UpsertIds ==
    /\ writer_pc = "upsert_ids"
    /\ ids' = ids \o batch
    /\ writer_pc' = "upsert_metadatas"
    /\ UNCHANGED <<index, metadatas, upserted, batch, reader_pc, hit, result>>
    /\ UNCHANGED outsideStore

\* self.metadatas.extend(metadatas)
UpsertMetadatas ==
    /\ writer_pc = "upsert_metadatas"
    /\ metadatas' = metadatas \o batch
    /\ writer_pc' = "idle"
    /\ batch' = << >>
    /\ UNCHANGED <<index, ids, upserted, reader_pc, hit, result>>
    /\ UNCHANGED outsideStore

\* delete_by_document(document_id) up to self.index = faiss.IndexFlatIP(self.dim);
\* it returns at once when no metadata names the document
DeleteIndex ==
    /\ writer_pc = "idle"
    /\ \E d \in Documents :
          /\ \E i \in 1..Len(metadatas) : metadatas[i].doc = d
          /\ index' = << >>
    /\ writer_pc' = "delete_ids"
    /\ UNCHANGED <<ids, metadatas, upserted, batch, reader_pc, hit, result>>
    /\ UNCHANGED outsideStore

\* self.ids = []
DeleteIds ==
    /\ writer_pc = "delete_ids"
    /\ ids' = << >>
    /\ writer_pc' = "delete_metadatas"
    /\ UNCHANGED <<index, metadatas, upserted, batch, reader_pc, hit, result>>
    /\ UNCHANGED outsideStore

\* self.metadatas = []
DeleteMetadatas ==
    /\ writer_pc = "delete_metadatas"
    /\ metadatas' = << >>
    /\ writer_pc' = "idle"
    /\ UNCHANGED <<index, ids, upserted, batch, reader_pc, hit, result>>
    /\ UNCHANGED outsideStore

\* query(embedding, k): if len(self.ids) == 0: return []
QueryBegin ==
    /\ reader_pc \in {"idle", "done"}
    /\ hit' = NoHit
    /\ IF ids = << >>
       THEN result' = [NoResult EXCEPT !.status = "empty"] /\ reader_pc' = "done"
       ELSE result' = NoResult /\ reader_pc' = "search"
    /\ UNCHANGED <<index, ids, metadatas, upserted, writer_pc, batch>>
    /\ UNCHANGED outsideStore

\* self.index.search(vec, min(k, len(self.ids))): the best position of the
\* index, whichever it is; positions below 0 (nothing found) are skipped
QuerySearch ==
    /\ reader_pc = "search"
    /\ IF index = << >> \/ ids = << >>
       THEN /\ result' = [NoResult EXCEPT !.status = "empty"]
            /\ reader_pc' = "done"
            /\ hit' = hit
       ELSE /\ \E i \in 1..Len(index) : hit' = [pos |-> i, entry |-> index[i].n, meta |-> 0]
            /\ reader_pc' = "read_metadata"
            /\ result' = result
    /\ UNCHANGED <<index, ids, metadatas, upserted, writer_pc, batch>>
    /\ UNCHANGED outsideStore

\* meta = self.metadatas[idx]
QueryMetadata ==
    /\ reader_pc = "read_metadata"
    /\ IF hit.pos <= Len(metadatas)
       THEN /\ hit' = [hit EXCEPT !.meta = metadatas[hit.pos].n]
            /\ reader_pc' = "read_id"
            /\ result' = result
       ELSE /\ result' = [NoResult EXCEPT !.status = "IndexError"]
            /\ reader_pc' = "done"
            /\ hit' = hit
    /\ UNCHANGED <<index, ids, metadatas, upserted, writer_pc, batch>>
    /\ UNCHANGED outsideStore

\* results.append((self.ids[idx], float(score), meta)); return results
QueryId ==
    /\ reader_pc = "read_id"
    /\ IF hit.pos <= Len(ids)
       THEN result' = [status |-> "ok", id |-> ids[hit.pos].n, meta |-> hit.meta,
                       entry |-> hit.entry]
       ELSE result' = [NoResult EXCEPT !.status = "IndexError"]
    /\ reader_pc' = "done"
    /\ UNCHANGED <<index, ids, metadatas, upserted, writer_pc, batch, hit>>
    /\ UNCHANGED outsideStore

NextStore ==
    \/ UpsertAdd \/ UpsertIds \/ UpsertMetadatas
    \/ DeleteIndex \/ DeleteIds \/ DeleteMetadatas
    \/ QueryBegin \/ QuerySearch \/ QueryMetadata \/ QueryId

SpecStore == InitStore /\ [][NextStore]_vars

(***************************************************************************)
(* NotesService: app/notes/service.py (NotesManager of the backup is the   *)
(* same code).  Note.id is the autoincrement key, so the n-th note that is *)
(* inserted gets id n.                                                     *)
(***************************************************************************)
NoteTexts == {"note 1", "note 2"}
Note(id, s, t) == [id |-> id, session_id |-> s, text |-> t, finalized |-> FALSE]

\* a slip in the filter of end: the session is not part of it
OpenNotesOfAnySession(table, s) ==
    {i \in 1..Len(table) : ~table[i].finalized}

\* Note.query.filter_by(session_id=session_id, finalized=False): the rows
OpenNotes(table, s) ==
    {i \in 1..Len(table) : table[i].session_id = s /\ ~table[i].finalized}

InitNotes == NotesEmpty /\ OutsideNotesIdle

\* NotesService.start(session_id)
Start ==
    /\ \E s \in SessionIds :
          /\ sessions' = sessions \cup {s}
          /\ notes_op' = Op("start", s)
    /\ UNCHANGED <<notes, returned, added>>
    /\ UNCHANGED outsideNotes

\* NotesService.add(session_id, text)
Add ==
    /\ Len(notes) < MaxNotes
    /\ \E s \in SessionIds : \E t \in NoteTexts :
          /\ notes' = Append(notes, Note(Len(notes) + 1, s, t))
          /\ added' = [added EXCEPT ![s] = @ \cup {Len(notes) + 1}]
          /\ notes_op' = Op("add", s)
    /\ UNCHANGED <<sessions, returned>>
    /\ UNCHANGED outsideNotes

\* NotesService.end(session_id)
End ==
    /\ \E s \in SessionIds :
          /\ returned' = {[notes[i] EXCEPT !.finalized = TRUE] : i \in OpenNotes(notes, s)}
          /\ notes' = [i \in 1..Len(notes) |->
                          IF i \in OpenNotes(notes, s)
                          THEN [notes[i] EXCEPT !.finalized = TRUE] ELSE notes[i]]
          /\ added' = [added EXCEPT ![s] = {}]
          /\ notes_op' = Op("end", s)
    /\ UNCHANGED sessions
    /\ UNCHANGED outsideNotes

NextNotes == Start \/ Add \/ End

SpecNotes == InitNotes /\ [][NextNotes]_vars

(***************************************************************************)
(* split_text: app/rag/chunker.py.  A text is the sequence of its          *)
(* characters; text[start:end] of Python is SubSeq(t, start + 1, end).     *)
(***************************************************************************)
Characters == {"a", "b"}
RECURSIVE TextsOfLength(_)
TextsOfLength(n) ==
    IF n = 0 THEN {<< >>}
    ELSE {Append(t, c) : t \in TextsOfLength(n - 1), c \in Characters}

Texts == UNION {TextsOfLength(n) : n \in 0..MaxText}

\* a slip in the step of the loop: the next chunk starts where the last ended
NextStartNoOverlap(end, overlap) == end

\* start = end - overlap; if start < 0: start = 0
NextStart(end, overlap) == IF end - overlap < 0 THEN 0 ELSE end - overlap

\* the while loop of split_text from one value of start on
RECURSIVE split_loop(_, _, _, _)
split_loop(t, size, overlap, start) ==
    IF ~(start < Len(t)) THEN << >>
    ELSE LET end == Min(start + size, Len(t))
             chunk == SubSeq(t, start + 1, end)
         IN  IF end = Len(t) THEN <<chunk>>
             ELSE <<chunk>> \o split_loop(t, size, overlap, NextStart(end, overlap))

split_text(t, size, overlap) ==
    IF Len(t) <= size THEN <<t>> ELSE split_loop(t, size, overlap, 0)

\* one call split_text(text, max_chars, overlap) with 0 <= overlap < max_chars;
\* with a larger overlap the loop of a text longer than max_chars never ends
InitChunker ==
    /\ split_pc = "idle"
    /\ \E t \in Texts : \E size \in 1..MaxChunkChars : \E overlap \in 0..(size - 1) :
          split_args = SplitArgs(t, size, overlap)
    /\ split_start = 0
    /\ chunks = << >>
    /\ OutsideChunkerIdle

Split ==
    /\ split_pc = "idle"
    /\ chunks' = split_text(split_args.text, split_args.max_chars, split_args.overlap)
    /\ split_pc' = "split"
    /\ UNCHANGED <<split_args, split_start>>
    /\ UNCHANGED outsideChunker

NextChunker == Split

SpecChunker == InitChunker /\ [][NextChunker]_vars

\* split_text one statement block at a time, with any overlap >= 0
InitSplitLoop ==
    /\ split_pc = "idle"
    /\ \E t \in Texts : \E size \in 1..MaxChunkChars : \E overlap \in 0..MaxOverlap :
          split_args = SplitArgs(t, size, overlap)
    /\ split_start = 0
    /\ chunks = << >>
    /\ OutsideChunkerIdle

\* if len(text) <= max_chars: return [text]; else chunks = []; start = 0
SplitEnter ==
    /\ split_pc = "idle"
    /\ IF Len(split_args.text) <= split_args.max_chars
       THEN chunks' = <<split_args.text>> /\ split_pc' = "split"
       ELSE chunks' = << >> /\ split_pc' = "loop"
    /\ split_start' = 0
    /\ UNCHANGED split_args
    /\ UNCHANGED outsideChunker

\* one pass of the while loop: the chunk is appended, then the call returns
\* at the end of the text or start moves.  The list is followed up to
\* MaxChunks chunks.
SplitIterate ==
    /\ split_pc = "loop"
    /\ split_start < Len(split_args.text)
    /\ Len(chunks) < MaxChunks
    /\ LET end == Min(split_start + split_args.max_chars, Len(split_args.text))
       IN  /\ chunks' = Append(chunks, SubSeq(split_args.text, split_start + 1, end))
           /\ IF end = Len(split_args.text)
              THEN split_pc' = "split" /\ split_start' = split_start
              ELSE /\ split_pc' = "loop"
                   /\ split_start' = NextStart(end, split_args.overlap)
    /\ UNCHANGED split_args
    /\ UNCHANGED outsideChunker

NextSplitLoop == SplitEnter \/ SplitIterate

SpecSplitLoop == InitSplitLoop /\ [][NextSplitLoop]_vars

(***************************************************************************)
(* _ensure_services, ingest and chat of app/routes.py.  The server handles *)
(* requests on threads and _ensure_services takes no lock, so two requests *)
(* interleave between the test of a global and its assignment.            *)
(***************************************************************************)
\* the store object a request builds
StoreBuiltBy(r) == IF r = "r1" THEN 1 ELSE 2

InitServices ==
    /\ ServicesUnbuilt
    /\ svc_pc = [r \in Requests |-> "tools_test"]
    /\ OutsideServicesIdle

\* request r moves on to its next statement
Goto(r, where) == svc_pc' = [svc_pc EXCEPT ![r] = where]

\* if _tools is None:
ToolsTest(r) ==
    /\ svc_pc[r] = "tools_test"
    /\ Goto(r, IF _tools = "" THEN "tools_make" ELSE "store_test")
    /\ UNCHANGED <<_tools, _vector_store, _retriever, _agent, info_retriever, svc_made,
                   contents, ingested, chat_seen>>
    /\ UNCHANGED outsideServices

\* _tools = ToolRegistry() and the two register calls
ToolsMake(r) ==
    /\ svc_pc[r] = "tools_make"
    /\ _tools' = r
    /\ Goto(r, "store_test")
    /\ UNCHANGED <<_vector_store, _retriever, _agent, info_retriever, svc_made,
                   contents, ingested, chat_seen>>
    /\ UNCHANGED outsideServices

\* if _vector_store is None:
StoreTest(r) ==
    /\ svc_pc[r] = "store_test"
    /\ Goto(r, IF _vector_store = 0 THEN "store_make" ELSE "retriever_test")
    /\ UNCHANGED <<_tools, _vector_store, _retriever, _agent, info_retriever, svc_made,
                   contents, ingested, chat_seen>>
    /\ UNCHANGED outsideServices

\* _vector_store = FAISSVectorStore(dim=768)
StoreMake(r) ==
    /\ svc_pc[r] = "store_make"
    /\ _vector_store' = StoreBuiltBy(r)
    /\ Goto(r, "retriever_test")
    /\ UNCHANGED <<_tools, _retriever, _agent, info_retriever, svc_made,
                   contents, ingested, chat_seen>>
    /\ UNCHANGED outsideServices

\* if _retriever is None:
RetrieverTest(r) ==
    /\ svc_pc[r] = "retriever_test"
    /\ Goto(r, IF ~_retriever.built THEN "retriever_make" ELSE "agent_test")
    /\ UNCHANGED <<_tools, _vector_store, _retriever, _agent, info_retriever, svc_made,
                   contents, ingested, chat_seen>>
    /\ UNCHANGED outsideServices

\* Retriever(_vector_store, embedding_dim=768): the object is built
RetrieverMake(r) ==
    /\ svc_pc[r] = "retriever_make"
    /\ svc_made' = [svc_made EXCEPT ![r] = RetrieverOf(_vector_store)]
    /\ Goto(r, "retriever_assign")
    /\ UNCHANGED <<_tools, _vector_store, _retriever, _agent, info_retriever,
                   contents, ingested, chat_seen>>
    /\ UNCHANGED outsideServices

\* _retriever = <the object built>
RetrieverAssign(r) ==
    /\ svc_pc[r] = "retriever_assign"
    /\ _retriever' = svc_made[r]
    /\ svc_made' = [svc_made EXCEPT ![r] = NoRetriever]
    /\ Goto(r, "retriever_inject")
    /\ UNCHANGED <<_tools, _vector_store, _agent, info_retriever, contents, ingested,
                   chat_seen>>
    /\ UNCHANGED outsideServices

\* info_agent.set_retriever(_retriever)
RetrieverInject(r) ==
    /\ svc_pc[r] = "retriever_inject"
    /\ info_retriever' = _retriever
    /\ Goto(r, "agent_test")
    /\ UNCHANGED <<_tools, _vector_store, _retriever, _agent, svc_made,
                   contents, ingested, chat_seen>>
    /\ UNCHANGED outsideServices

\* if _agent is None:
AgentTest(r) ==
    /\ svc_pc[r] = "agent_test"
    /\ Goto(r, IF _agent = "" THEN "agent_make" ELSE "ready")
    /\ UNCHANGED <<_tools, _vector_store, _retriever, _agent, info_retriever, svc_made,
                   contents, ingested, chat_seen>>
    /\ UNCHANGED outsideServices

\* _agent = Agent(_tools)
AgentMake(r) ==
    /\ svc_pc[r] = "agent_make"
    /\ _agent' = r
    /\ Goto(r, "ready")
    /\ UNCHANGED <<_tools, _vector_store, _retriever, info_retriever, svc_made,
                   contents, ingested, chat_seen>>
    /\ UNCHANGED outsideServices

\* the rest of ingest: _vector_store.upsert(...) of one more chunk; the thread
\* then takes its next request
Ingest(r) ==
    /\ svc_pc[r] = "ready"
    /\ ingested < MaxIngested
    /\ ingested' = ingested + 1
    /\ contents' = [contents EXCEPT ![_vector_store] = @ \cup {ingested + 1}]
    /\ Goto(r, "tools_test")
    /\ UNCHANGED <<_tools, _vector_store, _retriever, _agent, info_retriever, svc_made,
                   chat_seen>>
    /\ UNCHANGED outsideServices

\* the rest of chat: _retriever.retrieve(...) queries the store the retriever
\* holds; the thread then takes its next request
Chat(r) ==
    /\ svc_pc[r] = "ready"
    /\ chat_seen' = [by |-> r, chunks |-> contents[_retriever.store], ingested |-> ingested]
    /\ Goto(r, "tools_test")
    /\ UNCHANGED <<_tools, _vector_store, _retriever, _agent, info_retriever, svc_made,
                   contents, ingested>>
    /\ UNCHANGED outsideServices

NextServices ==
    \E r \in Requests :
        \/ ToolsTest(r) \/ ToolsMake(r)
        \/ StoreTest(r) \/ StoreMake(r)
        \/ RetrieverTest(r) \/ RetrieverMake(r) \/ RetrieverAssign(r) \/ RetrieverInject(r)
        \/ AgentTest(r) \/ AgentMake(r)
        \/ Ingest(r) \/ Chat(r)

SpecServices == InitServices /\ [][NextServices]_vars

(***************************************************************************)
(* scene_log_add and scene_logs_stream of app/routes.py: requests that     *)
(* post to _log_messages and the generator of one open stream, which run   *)
(* on different threads.  A message is its posting number.                 *)
(***************************************************************************)
LogCap == 200

InitLog == LogEmpty /\ log_pc = "idle" /\ OutsideLogIdle

\* scene_log_add with an empty message: 400, nothing appended
PostEmpty ==
    /\ log_pc = "idle"
    /\ log_reply' = 400
    /\ UNCHANGED <<_log_messages, posted, log_pc, idx, delivered>>
    /\ UNCHANGED outsideLog

\* scene_log_add up to _log_messages.append(msg); it returns 200 at once
\* unless the buffer has grown past the cap
PostAppend ==
    /\ log_pc = "idle"
    /\ posted < MaxPosted
    /\ posted' = posted + 1
    /\ _log_messages' = Append(_log_messages, posted + 1)
    /\ IF Len(_log_messages') > LogCap
       THEN log_pc' = "truncate" /\ log_reply' = log_reply
       ELSE log_pc' = "idle" /\ log_reply' = 200
    /\ UNCHANGED <<idx, delivered>>
    /\ UNCHANGED outsideLog

\* del _log_messages[:-200]; return 200
PostTruncate ==
    /\ log_pc = "truncate"
    /\ _log_messages' = SubSeq(_log_messages, Len(_log_messages) - LogCap + 1,
                               Len(_log_messages))
    /\ log_pc' = "idle"
    /\ log_reply' = 200
    /\ UNCHANGED <<posted, idx, delivered>>
    /\ UNCHANGED outsideLog

\* one pass of the inner loop of event_stream: while idx < len(_log_messages):
\* yield _log_messages[idx]; idx += 1
StreamYield ==
    /\ log_pc # "unused"
    /\ idx < Len(_log_messages)
    /\ delivered' = Append(delivered, _log_messages[idx + 1])
    /\ idx' = idx + 1
    /\ UNCHANGED <<_log_messages, posted, log_pc, log_reply>>
    /\ UNCHANGED outsideLog

NextLog == PostEmpty \/ PostAppend \/ PostTruncate \/ StreamYield

SpecLog == InitLog /\ [][NextLog]_vars

\* the generator wakes every 0.5 s while the stream is open, and a request
\* thread that has appended goes on to its truncation
SpecLogFair == SpecLog /\ WF_vars(StreamYield) /\ WF_vars(PostTruncate)

(***************************************************************************)
(* Properties                                                              *)
(***************************************************************************)
Returned == pc # "idle"

\* the catalog entities the utterance names, by name or by synonym
Named(t) == {e.name : e \in {x \in Entities : Has(t, x.name) \/ HasAny(t, x.synonyms)}}

\* C1: route never fails outright: whatever its leaves and the oracle do, it
\* returns one decision of type tool_action, answer or clarification and raises
\* no exception (an info intent without an entity gives a clarification).
C1_RouteAlwaysReturnsDecision ==
    Returned => decision.type \in {"tool_action", "answer", "clarification"}

\* C2: outside the fast path a tool_action is emitted only with the intent
\* confidence at or above intent_confidence and the best entity's confidence at
\* or above entity_confidence.
C2_ActionClearsBothThresholds ==
    (Returned /\ decision.type = "tool_action" /\ decision.branch # "fast_path")
        => /\ signals.intent_confidence >= IntentThreshold
           /\ signals.entity_confidence >= EntityThreshold

\* the declared bounds a value has to respect for a target
WithinDeclaredBounds(target, v) ==
    CASE v.k = "num" -> InRange(v.n, RangeOf(target).min, RangeOf(target).max)
      [] v.k = "map" -> /\ v.h # Absent => InRange(v.h, HeightMin, HeightMax)
                        /\ v.l # Absent => InRange(v.l, LengthMin, LengthMax)
      [] OTHER -> TRUE

\* C3: every number or dimension mapping in arguments.value of a tool_action
\* lies within the declared bounds: a scalar within the target's [min,max], each
\* dimension of a mapping within its own [min,max].
C3_ActionValueWithinBounds ==
    (Returned /\ decision.type = "tool_action")
        => WithinDeclaredBounds(decision.arguments.target, decision.arguments.value)

\* the utterance "set T to v" for a value-type target T and a number v of its range
IsSetCommand(t, target, v) ==
    /\ t = <<W("set"), W(target), N(v)>>
    /\ EntityOf(target).type = "value"
    /\ InRange(v, RangeOf(target).min, RangeOf(target).max)

\* C4: route("set T to v"), for a value-type target T and min <= v <= max,
\* returns a tool_action with target T and the scalar v as its value.
C4_SetCommandKeepsScalar ==
    \A target \in EntityNames : \A v \in BareNumbers :
        (Returned /\ IsSetCommand(text, target, v))
            => /\ decision.type = "tool_action"
               /\ decision.arguments.target = target
               /\ decision.arguments.value = VNum(v)

TurnWord(op) == IF op = "on" THEN "turn on" ELSE "turn off"

\* the utterance holds the phrase "turn <op> <entity>"
HasTurnPhrase(t, op, e) ==
    \E i \in 1..(Len(t) - 1) : t[i] = W(TurnWord(op)) /\ t[i + 1] = W(e)

\* the switch entity is the only one in play: the only one the text names, and
\* the only one among the candidates route collected
ResolvesOnlyTo(e) ==
    /\ EntityOf(e).type = "switch"
    /\ Named(text) = {e}
    /\ \A i \in 1..Len(signals.candidates) : signals.candidates[i].ent = e

\* the phrases that carry an intent of their own
IntentPhrases == {"turn on", "turn off", "give me", "show me", "what is"}

\* the utterance holds no number and no intent phrase besides "turn <op>"
NothingElseToActOn(t, op) ==
    /\ ~HasDigit(t)
    /\ \A i \in 1..Len(t) :
          (t[i].k = "word" /\ t[i].w \in IntentPhrases) => t[i].w = TurnWord(op)

IsTurnAction(d, op, e) ==
    /\ d.type = "tool_action"
    /\ d.tool = "control"
    /\ d.arguments = Args("right", e, "set", VStr(op))

IsImplantOrder(t, h, l) ==
    /\ Has(t, "implant") /\ (Has(t, "give me") \/ Has(t, "provide me"))
    /\ \E i \in 1..Len(t) : t[i] = D(h, l)
    /\ Cardinality(Positions(t, {"num", "pct", "dim"})) = 1
    /\ InRange(h, HeightMin, HeightMax) /\ InRange(l, LengthMin, LengthMax)

\* C6: an implant request with a dimension pair "h x l" in range gives a
\* tool_action whose value is {height_y_mm: h, length_z_mm: l}; no branch
\* answers with a clarification before the digit override takes effect.
C6_ImplantOrderBecomesAction ==
    \A d \in DimPairs :
        (Returned /\ IsImplantOrder(text, d[1], d[2]))
            => /\ decision.type = "tool_action"
               /\ decision.arguments.value = VMap(d[1], d[2])

\* the utterance carries no signal: no phrase, no entity name, no number
NoSignal(t) == \A i \in 1..Len(t) : t[i] = W("asdkjh")

\* C7: an utterance without any signal, and without entity candidates, gives a
\* clarification with a non-empty clarifications list, whatever the completion
\* oracle replies and also when it fails.
C7_NoSignalGivesClarification ==
    (Returned /\ NoSignal(text) /\ ~signals.has_entity)
        => /\ decision.type = "clarification"
           /\ decision.clarifications # << >>

\* C8: every clarification and every tool_action of route carries a confidence
\* object with the keys intent, entity and value.
C8_ConfidenceTripleEverywhere ==
    (Returned /\ decision.type \in {"clarification", "tool_action"})
        => decision.confidence.kind = "triple"

Validated == pc = "validated"

\* a set request for a value-type target of the catalog with a number out of range
IsOutOfRangeSet(a) ==
    /\ a.hand \in {"right", "none"}
    /\ a.operation = "set"
    /\ a.target \in EntityNames /\ EntityOf(a.target).type = "value"
    /\ a.value.k = "num"
    /\ ~InRange(a.value.n, RangeOf(a.target).min, RangeOf(a.target).max)

\* C9: for a value-type target and a number outside its [min,max] the validator
\* answers ok=False with an error that states the range "(min-max)", and never
\* accepts the action.
C9_OutOfRangeNamesTheRange ==
    (Validated /\ IsOutOfRangeSet(args))
        => /\ ~verdict.ok
           /\ verdict.raised = ""
           /\ verdict.error.ranged
           /\ verdict.error.min = RangeOf(args.target).min
           /\ verdict.error.max = RangeOf(args.target).max

\* C10: for every argument mapping the validator returns normalized arguments or
\* an error string; it never raises.
C10_ValidatorNeverRaises ==
    Validated => verdict.raised = ""

\* the targets the left hand must not control: every switch and value target
\* and the implants, the skull model excepted
LeftForbidden ==
    (switch_targets \cup value_targets \cup {"implants"}) \ {"skull_model"}

\* C11: the validator never accepts hand "left" for a switch target, a value
\* target or the implants (skull_model excepted); such a request, otherwise well
\* formed, is rejected with "left hand cannot control this target".
C11_LeftHandNeverAccepted ==
    (Validated /\ args.hand = "left" /\ args.target \in LeftForbidden)
        => /\ ~verdict.ok
           /\ args.operation \in {"set", "toggle"}
                 => verdict.error.text = "left hand cannot control this target"

\* C12: two calls route(text) with the same text and configuration return the
\* same decision; neither state left by the first call nor a reply of the
\* completion oracle makes the second differ.
C12_SecondCallSameDecision ==
    pc = "repeated" => again = decision

\* C13: the string build_context returns is never longer than max_chars,
\* however many chunks matched and however long their texts are.
C13_ContextWithinBudget ==
    rag_pc = "built" => context.length <= max_chars

\* the raw semantic score of the vector-index hit behind a returned item
RawScore(item) == store_hits[item.pos].score

\* C14: with weights semantic=1, lexical=0 and a non-empty vector-index result,
\* retrieve returns the index's candidates in non-increasing order of their raw
\* semantic score, also for batches of zero or negative scores.
C14_PureSemanticOrder ==
    (/\ rag_pc # "idle" /\ rag_pc # "unused"
     /\ weights = [semantic |-> 10, lexical |-> 0] /\ store_hits # << >>)
        => /\ Len(retrieved) = Min(Len(store_hits), FinalK)
           /\ \A i, j \in 1..Len(retrieved) :
                 i < j => RawScore(retrieved[i]) >= RawScore(retrieved[j])

\* the lexical term-overlap score of a chunk for the query, 0 without a hit
LexOf(c) == LexGet(_lexical_scores(term_hits, LexicalK), c)

\* C15: with weights semantic=0, lexical=1 retrieve returns the pure lexical
\* ranking: the chunks with the highest lexical scores, in non-increasing
\* lexical-score order, whether or not the vector index returned them too.
C15_PureLexicalRanking ==
    (rag_pc # "idle" /\ rag_pc # "unused" /\ weights = [semantic |-> 0, lexical |-> 10])
        => /\ \A i, j \in 1..Len(retrieved) :
                 i < j => LexOf(retrieved[i].id) >= LexOf(retrieved[j].id)
           /\ \A c \in ChunkIds :
                 LexOf(c) > 0
                    => \/ \E i \in 1..Len(retrieved) : retrieved[i].id = c
                       \/ /\ Len(retrieved) >= DefaultK
                          /\ \A i \in 1..Len(retrieved) : LexOf(retrieved[i].id) >= LexOf(c)

\* the text is "a x b", alone or after a phrase
IsDimensionText(t, a, b) == t # << >> /\ t[Len(t)] = D(a, b)

\* C16: parse_value on "a x b" with height range H and length range L: a in H
\* and b in L give {height: a, length: b}, also when both orders fit;
\* otherwise b in H and a in L give the swapped {height: b, length: a};
\* otherwise the as-written order is kept, at a lower confidence.
C16_DimensionDisambiguation ==
    \A a, b \in DimValues :
        (parse_pc = "parsed" /\ IsDimensionText(parse_text, a, b))
            => LET H == implant_ranges.height
                   L == implant_ranges.length
               IN  /\ parsed.found
                   /\ (Within(a, H) /\ Within(b, L))
                         => parsed.val = VMap(a, b) /\ parsed.conf = 90
                   /\ (~(Within(a, H) /\ Within(b, L)) /\ Within(b, H) /\ Within(a, L))
                         => parsed.val = VMap(b, a) /\ parsed.conf = 90
                   /\ (~(Within(a, H) /\ Within(b, L)) /\ ~(Within(b, H) /\ Within(a, L)))
                         => parsed.val = VMap(a, b) /\ parsed.conf < 90

\* C16 witness: "11.5 x 4" was parsed under the default ranges into the swapped
\* assignment
C16_Witness ==
    /\ parse_pc = "parsed"
    /\ IsDimensionText(parse_text, 115, 40)
    /\ implant_ranges = [height |-> DefaultHeightRange, length |-> DefaultLengthRange]
    /\ parsed = Parsed(VMap(40, 115), 90)

\* C17: a query that interleaves with an upsert or a delete_by_document on the
\* same store never observes a partially applied mutation: it does not fail
\* with an out-of-range access, and the position it got back has the id and
\* the metadata of the entry the index held there.
C17_QuerySeesNoPartialMutation ==
    reader_pc = "done"
        => /\ result.status # "IndexError"
           /\ result.status = "ok" => result.id = result.entry /\ result.meta = result.entry

\* the step is a call end(s)
IsEnd(s) == notes_op' = Op("end", s)

\* C18: after any sequence of start and add, end(s) returns exactly the notes
\* of session s that were not finalized at that moment, one per add since the
\* previous end and each with its own id, leaves s without a non-finalized
\* note and changes no note of another session.
C18_EndReturnsOpenNotes ==
    [][\A s \in SessionIds :
          IsEnd(s)
             => /\ {n.id : n \in returned'} = {notes[i].id : i \in OpenNotes(notes, s)}
                /\ \A n \in returned' : n.session_id = s
                /\ {n.id : n \in returned'} = added[s]
                /\ Cardinality(returned') = Cardinality(added[s])
                /\ OpenNotes(notes', s) = {}
                /\ Len(notes') = Len(notes)
                /\ \A i \in 1..Len(notes) :
                      notes[i].session_id # s => notes'[i] = notes[i]]_vars

\* C18 witness: end("s1") has just returned two notes while a note of s2 stays
\* open
C18_Witness ==
    /\ notes_op = Op("end", "s1")
    /\ Cardinality(returned) = 2
    /\ OpenNotes(notes, "s2") # {}
    /\ OpenNotes(notes, "s1") = {}
\* the first chunk followed by every later chunk without its first `overlap`
\* characters
RECURSIVE Rebuilt(_, _)
Rebuilt(cs, overlap) ==
    IF Len(cs) <= 1 THEN (IF cs = << >> THEN << >> ELSE cs[1])
    ELSE Rebuilt(SubSeq(cs, 1, Len(cs) - 1), overlap)
            \o SubSeq(cs[Len(cs)], overlap + 1, Len(cs[Len(cs)]))

RECURSIVE TotalLength(_)
TotalLength(cs) ==
    IF cs = << >> THEN 0 ELSE Len(cs[1]) + TotalLength(Tail(cs))

\* C19: a text longer than max_chars is split (for 0 <= overlap < max_chars)
\* into chunks of at most max_chars characters; the first chunk followed by
\* every later chunk without its first `overlap` characters is the text
\* itself, so the chunk lengths sum to at least len(text).  A text of at
\* most max_chars characters comes back as the single chunk [text].
C19_ChunksCoverText ==
    split_pc = "split" =>
        IF Len(split_args.text) <= split_args.max_chars
        THEN chunks = <<split_args.text>>
        ELSE /\ \A i \in 1..Len(chunks) : Len(chunks[i]) <= split_args.max_chars
             /\ Rebuilt(chunks, split_args.overlap) = split_args.text
             /\ TotalLength(chunks) >= Len(split_args.text)

\* a text of two different characters is cut into three or more overlapping
\* chunks, the last one shorter than max_chars
C19_Witness ==
    /\ split_pc = "split"
    /\ split_args.overlap > 0
    /\ Len(chunks) >= 3
    /\ Len(chunks[Len(chunks)]) < split_args.max_chars
    /\ \E i, j \in 1..Len(split_args.text) : split_args.text[i] # split_args.text[j]

\* what the call had to go on: a number in the utterance, an entity candidate
\* or an intent label other than none
PartialSignal ==
    \/ HasDigit(text)
    \/ signals.candidates # << >>
    \/ signals.intent_label # "none"

\* an item that lists candidate entities or value targets
Targeted(item) ==
    item.kind \in {"which_control", "which_element", "whose_info"} /\ item.names # << >>

\* C20: whenever route returns the low-confidence clarification and a partial
\* signal exists (a number, an entity candidate, an intent label other than
\* none), some item of the clarifications list names candidate entities or
\* value targets; only without any partial signal is the list generic.
C20_PartialSignalGivesTargetedItem ==
    (Returned /\ decision.branch = "low_confidence" /\ PartialSignal)
        => \E i \in 1..Len(decision.clarifications) : Targeted(decision.clarifications[i])

\* C21: the merged candidate list of route holds at most one candidate per
\* canonical entity: an entity matched by the embedding path (by name or by
\* synonym) and by the lexical path is listed once.
C21_OneCandidatePerEntity ==
    Returned =>
        \A i, j \in 1..Len(signals.candidates) :
            i # j => signals.candidates[i].ent # signals.candidates[j].ent

\* the call got past the fast path, so it classified the utterance
Classified == Returned /\ signals.intent_label # ""

\* C22: inside one route call the completion oracle is consulted only after the
\* rule classifier and the fuzzy fallback have both stayed below the intent
\* threshold; its reply is adopted only when it is one label of the declared
\* set; an exception or any other reply leaves label and confidence as they
\* were, and route does not raise because of it.
C22_TieBreakProtocol ==
    Classified =>
        LET lv == signals.leaves
            first == lv.classified
            fuzzy == lv.fuzzy
            kept == ImplantOverride(lv.intent, lv.implant_request, lv.digit)
            named == Intent(StripLower(signals.llm_reply), 70)
            adopted == ImplantOverride(named, lv.implant_request, lv.digit)
            final == Intent(signals.intent_label, signals.intent_confidence)
        IN  /\ signals.asked_llm
                => first.conf < IntentThreshold /\ fuzzy.conf < IntentThreshold
            /\ ~signals.asked_llm => signals.llm_reply = "" /\ final = kept
            /\ signals.asked_llm =>
                  IF StripLower(signals.llm_reply) \in Labels
                  THEN final = adopted
                  ELSE /\ final = kept
                       /\ \E sem \in SemResults : decision = RouteCall(lv, "", sem).decision
\* the classifier found nothing, the oracle was asked and raised, and route
\* returned a decision with the label still none
C22_Witness ==
    /\ Classified
    /\ signals.asked_llm
    /\ signals.llm_reply = "<exception>"
    /\ signals.intent_label = "none"
    /\ decision.type = "clarification"

\* the oracle's capitalised reply was adopted as the label it names
C22_WitnessAdopted ==
    /\ Classified
    /\ signals.llm_reply = " Control_On "
    /\ signals.intent_label = "control_on"
    /\ signals.intent_confidence = 70

\* the utterance with every "n%" written as the bare number "n"
WithoutPercent(t) ==
    [i \in 1..Len(t) |-> IF t[i].k = "pct" THEN N(t[i].a) ELSE t[i]]

\* C23: parse_value treats "n%" exactly as the bare "n": the two utterances
\* give the same value and the same confidence, or both give none.
C23_PercentLikeBareNumber ==
    (parse_pc = "parsed" /\ parse_text \in PercentTexts)
        => parsed = parse_value_in(WithoutPercent(parse_text),
                                   implant_ranges.height, implant_ranges.length)

\* "give me" (or "provide me") together with "implant", and no digit
IsSizeRequestText(t) ==
    Has(t, "implant") /\ (Has(t, "give me") \/ Has(t, "provide me")) /\ ~HasDigit(t)

\* C24: an utterance with an implant-request phrase and no digit gets the
\* size-request clarification that names the two ranges and gives an example,
\* never a tool_action, whatever the classifier and the oracle said first.
C24_SizeRequestClarification ==
    (Returned /\ IsSizeRequestText(text))
        => /\ decision.type = "clarification"
           /\ decision.branch = "size_request"
           /\ decision.message = "Which size for implants?"
           /\ \E i \in 1..Len(decision.clarifications) :
                 decision.clarifications[i] = Item("size_ranges", <<"height_y_mm", "length_z_mm">>)
           /\ \E i \in 1..Len(decision.clarifications) :
                 decision.clarifications[i].kind = "size_example"

\* "turn on give me implants": the rule classifier says control_on at 0.9 and
\* the call still ends in the size request
C24_Witness ==
    /\ Returned
    /\ IsSizeRequestText(text)
    /\ signals.leaves.classified = Intent("control_on", 90)
    /\ signals.intent_label = "size_request"
    /\ decision.branch = "size_request"

\* the value of the arguments is on/off, or lies within the declared range of
\* the target
AcceptableValue(a) ==
    \/ a.value.k = "str" /\ a.value.s \in {"on", "off"}
    \/ a.value.k \in {"num", "map"} /\ WithinDeclaredBounds(a.target, a.value)

\* C25: router and validator agree on the catalogs: a tool_action of route
\* whose value is on/off or within the declared range of its target is
\* accepted by control_handler, whatever the type of the target and the hand
\* the router assigned.
C25_RouterActionsAccepted ==
    (Validated /\ decision.type = "tool_action" /\ AcceptableValue(args))
        => verdict.ok

\* C26: every decision route returns passes the schema its caller applies:
\* validate_response gives no "error" for a tool_action, an answer or a
\* clarification.
C26_DecisionFitsSchema ==
    (Returned /\ decision.type \in {"tool_action", "answer", "clarification"})
        => ~validate_response(decision).error

\* C27: under every interleaving of concurrent calls of _ensure_services the
\* Retriever that chat queries, and the one injected into the InfoAgent, hold
\* the FAISSVectorStore that ingest upserts into, so a chat sees every chunk
\* ingested before it.
C27_RetrieverSharesStore ==
    /\ (\A r \in Requests : svc_pc[r] = "ready")
          => /\ _retriever.store = _vector_store
             /\ info_retriever.store = _vector_store
    /\ chat_seen.by # "" => chat_seen.chunks = 1..chat_seen.ingested

\* the entries of a list that belong to another document than d
OfOtherDocuments(entries, d) ==
    LET Other(e) == e.doc # d
    IN  SelectSeq(entries, Other)

\* the step that ends a delete_by_document that found something to delete
DeleteReturns == writer_pc = "delete_metadatas" /\ writer_pc' = "idle"

\* C28: delete_by_document(d) removes exactly the entries of document d: when
\* it returns, index, ids and metadatas hold the entries of every other
\* document, as before the call.
C28_DeleteRemovesOnlyTheDocument ==
    [][DeleteReturns =>
          \E d \in Documents :
              /\ \E i \in 1..Len(metadatas) : metadatas[i].doc = d
              /\ metadatas' = OfOtherDocuments(metadatas, d)
              /\ ids' = metadatas'
              /\ index' = metadatas']_vars

\* The safety part of C29: every message accepted by POST /v1/scene/log reaches
\* the open stream once and in posting order, also after the buffer has reached its cap: the
\* stream yields message 1, 2, 3, ... without gap or repeat, and when it has
\* nothing left to yield it has yielded every accepted message.
C29_DeliveredInOrder ==
    /\ \A i \in 1..Len(delivered) : delivered[i] = i
    /\ (log_pc = "idle" /\ ~(idx < Len(_log_messages))) => Len(delivered) = posted

Yielded(m) == \E i \in 1..Len(delivered) : delivered[i] = m

\* C29: a message accepted after the buffer has reached its cap is eventually
\* delivered to the open stream.
C29_EventuallyDelivered == (posted > LogCap) ~> Yielded(LogCap + 1)

\* C30: on every pass of the loop of split_text that does not return, the
\* start position strictly advances, whatever max_chars >= 1 and overlap >= 0
\* are (overlap >= max_chars included), so that the call ends.
C30_StartStrictlyAdvances ==
    [][(split_pc = "loop" /\ split_pc' = "loop") => split_start' > split_start]_vars
====
